---- MODULE Spec2Model ----
(***************************************************************************)
(* git-backup: model of `git-backup pull` (cmd_pull_ and fetch) running    *)
(* against one backup repository and a set of source directories.          *)
(*                                                                         *)
(* Strings are sequences of byte values, object ids are 2-byte arrays      *)
(* (SHA1_RAWSIZE shortened), git subprocesses are atomic: a failing        *)
(* command changes nothing.                                                *)
(***************************************************************************)
EXTENDS Integers, Sequences, FiniteSets, TLC

\* ------------------------------------------------------------ byte strings

Ascii ==
    ("a" :> 97) @@ ("b" :> 98) @@ ("c" :> 99) @@ ("d" :> 100) @@ ("e" :> 101) @@
    ("f" :> 102) @@ ("g" :> 103) @@ ("h" :> 104) @@ ("i" :> 105) @@ ("k" :> 107) @@
    ("l" :> 108) @@ ("m" :> 109) @@ ("n" :> 110) @@ ("o" :> 111) @@ ("p" :> 112) @@
    ("r" :> 114) @@ ("s" :> 115) @@ ("t" :> 116) @@ ("u" :> 117) @@ ("v" :> 118) @@
    ("x" :> 120) @@ ("y" :> 121) @@ ("/" :> 47) @@ ("." :> 46) @@ (" " :> 32) @@
    ("%" :> 37) @@ ("0" :> 48) @@ ("1" :> 49) @@ ("2" :> 50) @@ ("3" :> 51) @@ ("j" :> 106) @@
    ("\n" :> 10)

\* a string literal: the bytes of the characters of cs
S(cs) == [i \in 1..Len(cs) |-> Ascii[cs[i]]]

Slash == Ascii["/"]
Dot == Ascii["."]
Space == Ascii[" "]

HasPrefix(s, p) == Len(p) <= Len(s) /\ SubSeq(s, 1, Len(p)) = p

HasSuffix(s, p) == Len(p) <= Len(s) /\ SubSeq(s, Len(s) - Len(p) + 1, Len(s)) = p

\* bytes.Compare(a, b) < 0 / strcmp(a, b) < 0
BytesLess(a, b) ==
    \E i \in 1..(Len(a) + 1) :
        /\ i <= Len(b)
        /\ \A j \in 1..(i - 1) : a[j] = b[j]
        /\ (i = Len(a) + 1 \/ a[i] < b[i])

RECURSIVE Join(_, _)
\* strings.Join(v, sep)
Join(v, sep) ==
    IF Len(v) = 0 THEN <<>>
    ELSE IF Len(v) = 1 THEN v[1]
    ELSE v[1] \o sep \o Join(Tail(v), sep)

RECURSIVE Split(_, _)
\* strings.Split(s, sep) for a one-byte separator
Split(s, sep) ==
    IF \A i \in 1..Len(s) : s[i] # sep THEN <<s>>
    ELSE LET k == CHOOSE i \in 1..Len(s) : s[i] = sep /\ \A j \in 1..(i - 1) : s[j] # sep
         IN  <<SubSeq(s, 1, k - 1)>> \o Split(SubSeq(s, k + 1, Len(s)), sep)

\* ------------------------------------------------------------ Sha1

NullSha1 == <<0, 0>>

HexDigit(n) == IF n < 10 THEN 48 + n ELSE 87 + n

\* Sha1.String(): lowercase hex of the raw bytes
Sha1String(sha1) ==
    <<HexDigit(sha1[1] \div 16), HexDigit(sha1[1] % 16),
      HexDigit(sha1[2] \div 16), HexDigit(sha1[2] % 16)>>

BySha1LessDesc(a, b) == BytesLess(b, a)

\* BySha1.Less: bytes.Compare on the raw id bytes
BySha1Less(a, b) == BytesLess(a, b)

RECURSIVE SortBySha1(_)
\* Sha1Set.Elements() followed by sort.Sort(BySha1(...))
SortBySha1(s) ==
    IF s = {} THEN <<>>
    ELSE LET m == CHOOSE x \in s : \A y \in s : ~BySha1Less(y, x)
         IN  <<m>> \o SortBySha1(s \ {m})

\* ------------------------------------------------------------ paths

\* strip_prefix("/a/b", "/a/b/c/d/e") -> "c/d/e"; the path must start with prefix
RECURSIVE StripSlashes(_)
StripSlashes(path) ==
    IF Len(path) > 0 /\ path[1] = Slash THEN StripSlashes(Tail(path)) ELSE path

strip_prefix(prefix, path) == StripSlashes(SubSeq(path, Len(prefix) + 1, Len(path)))

\* reprefix("/a", "/b", "/a/str") -> "/b/str"
reprefix(prefix_from, prefix_to, path) ==
    prefix_to \o <<Slash>> \o strip_prefix(prefix_from, path)

HexDigitUpper(n) == IF n < 10 THEN 48 + n ELSE 55 + n

RECURSIVE escape(_)
\* escape: every byte of s as %XX, uppercase hex
escape(s) ==
    IF s = <<>> THEN <<>>
    ELSE <<Ascii["%"], HexDigitUpper(s[1] \div 16), HexDigitUpper(s[1] % 16)>> \o escape(Tail(s))

\* utf8.RuneError
RuneError == 65533

\* utf8.DecodeRuneInString, for runes of one and two bytes: [r: the rune,
\* size: its bytes]; a byte that starts no such rune is RuneError of size 1
DecodeRune(component) ==
    IF component[1] < 128 THEN [r |-> component[1], size |-> 1]
    ELSE IF /\ component[1] \in 194..223
            /\ Len(component) >= 2
            /\ component[2] \in 128..191
         THEN [r |-> (component[1] - 192) * 64 + (component[2] - 128), size |-> 2]
         ELSE [r |-> RuneError, size |-> 1]

\* '%' is taken for an ordinary character
shouldEscapeNoPercent(r) ==
    \/ r <= 32
    \/ r \in 127..160
    \/ r \in {58, 63, 91, 92, 94, 126, 42, 64, RuneError}

\* shouldEscape: space and control characters (below U+0800: up to U+0020,
\* U+007F..U+009F, U+00A0), the listed punctuation, and utf8.RuneError,
\* which a byte that is no valid UTF-8 decodes to
shouldEscape(r) ==
    \/ r <= 32
    \/ r \in 127..160
    \/ r \in {58, 63, 91, 92, 94, 126, 42, 64, 37, RuneError}

RECURSIVE Repeat(_, _)
Repeat(s, n) == IF n <= 0 THEN <<>> ELSE s \o Repeat(s, n - 1)

FlushDots(out, dots) ==
    IF dots # 0 THEN out \o Repeat(escape(<<Dot>>), dots - 1) \o <<Dot>> ELSE out

RECURSIVE EscapeRunes(_, _, _)
\* the rune loop of path_refescape over one component
EscapeRunes(component, dots, out) ==
    IF component = <<>> THEN FlushDots(out, dots)
    ELSE LET r      == DecodeRune(component).r
             size   == DecodeRune(component).size
             rbytes == SubSeq(component, 1, size)
             rest   == SubSeq(component, size + 1, Len(component))
         IN  IF r = Dot THEN EscapeRunes(rest, dots + 1, out)
             ELSE EscapeRunes(rest, 0,
                      FlushDots(out, dots) \o (IF shouldEscape(r) THEN escape(rbytes) ELSE rbytes))

DotLock == S(<<".", "l", "o", "c", "k">>)

EscapeComponentPlain(component) == EscapeRunes(component, 0, <<>>)

EscapeComponent(component) ==
    LET out  == EscapeRunes(component, 0, <<>>)
        out1 == IF Len(out) > 0 /\ out[1] = Dot THEN escape(<<Dot>>) \o Tail(out) ELSE out
    IN  IF Len(out1) > 0 /\ HasSuffix(out1, DotLock)
        THEN SubSeq(out1, 1, Len(out1) - 5) \o escape(<<Dot>>) \o S(<<"l", "o", "c", "k">>)
        ELSE out1

RECURSIVE StripTrailingEmpty(_)
StripTrailingEmpty(outv) ==
    IF Len(outv) > 0 /\ Len(outv[Len(outv)]) = 0
    THEN StripTrailingEmpty(SubSeq(outv, 1, Len(outv) - 1))
    ELSE outv

\* path_refescape: escape path so that git accepts it as a reference name
path_refescape(path) ==
    LET compv == Split(path, Slash)
        outv  == [i \in 1..Len(compv) |-> EscapeComponent(compv[i])]
    IN  Join(StripTrailingEmpty(outv), <<Slash>>)

IsHex(c) == c \in 48..57 \/ c \in 65..70 \/ c \in 97..102

\* hex.DecodeString, one digit: either case
FromHex(c) == IF c <= 57 THEN c - 48 ELSE IF c <= 70 THEN c - 55 ELSE c - 87

RECURSIVE Unescape(_, _, _)
\* the loop of path_refunescape from position i on
Unescape(s, i, out) ==
    IF i > Len(s) THEN [s |-> out, ok |-> TRUE]
    ELSE IF s[i] = Ascii["%"]
         THEN IF i + 2 > Len(s) \/ ~IsHex(s[i + 1]) \/ ~IsHex(s[i + 2])
              THEN [s |-> <<>>, ok |-> FALSE]
              ELSE Unescape(s, i + 3, Append(out, FromHex(s[i + 1]) * 16 + FromHex(s[i + 2])))
         ELSE Unescape(s, i + 1, Append(out, s[i]))

\* path_refunescape: unescape path encoded by path_refescape; any byte can be
\* %-encoded; [s: the path, ok: no EscapeError]
path_refunescape(s) == Unescape(s, 1, <<>>)

\* ------------------------------------------------------------ bounds

\* pulls started in one behaviour of one process alone
MaxPulls == 3
\* pulls started in one behaviour of two processes
MaxRacing == 2
\* minutes the clock can advance
MaxClock == 1
\* disturbances by the environment in one behaviour: modifications of the
\* sources, and failures injected into the steps of the pulls (failing
\* subprocess, file error, cancellation, misbehaving sender)
MaxEvents == 1

Procs == {1, 2}

\* what a behaviour runs: one process pulling again and again within one
\* minute, or two processes racing while the clock moves
Scenes == { [procs |-> {1}, pulls |-> MaxPulls, clock |-> 0, jobs |-> 2],
            [procs |-> Procs, pulls |-> MaxRacing, clock |-> MaxClock, jobs |-> 2] }

\* ------------------------------------------------------------ source objects

Commit1 == <<9, 1>>
Commit2 == <<3, 2>>
Tree1 == <<4, 3>>
Blob1 == <<5, 4>>
Tag1 == <<2, 5>>
Tag2 == <<6, 6>>
Tag3 == <<7, 7>>
Tag4 == <<8, 8>>
Tag5 == <<10, 9>>
EmptyTree == <<75, 130>>

\* the objects of the source repositories: kind, parents (commits), the ids an
\* object refers to directly (tree and parents, tree entries, tagged object)
SrcObj ==
    (Commit1 :> [kind |-> "commit", parents |-> <<>>, refs |-> {Tree1}]) @@
    (Commit2 :> [kind |-> "commit", parents |-> <<Commit1>>, refs |-> {Tree1, Commit1}]) @@
    (Tree1 :> [kind |-> "tree", parents |-> <<>>, refs |-> {Blob1}]) @@
    (Blob1 :> [kind |-> "blob", parents |-> <<>>, refs |-> {}]) @@
    (Tag1 :> [kind |-> "tag", parents |-> <<>>, refs |-> {Commit2}]) @@
    (Tag2 :> [kind |-> "tag", parents |-> <<>>, refs |-> {Tag1}]) @@
    (Tag3 :> [kind |-> "tag", parents |-> <<>>, refs |-> {Tree1}]) @@
    (Tag4 :> [kind |-> "tag", parents |-> <<>>, refs |-> {Blob1}]) @@
    (Tag5 :> [kind |-> "tag", parents |-> <<>>, refs |-> {Tag2}]) @@
    (EmptyTree :> [kind |-> "tree", parents |-> <<>>, refs |-> {}])

SrcIds == DOMAIN SrcObj

\* ------------------------------------------------------------ source layout

HeadsM == S(<<"h", "e", "a", "d", "s", "/", "m">>)
TagsV == S(<<"t", "a", "g", "s", "/", "v">>)
TagsX == S(<<"t", "a", "g", "s", "/", "x">>)
RefNames == {HeadsM, TagsV, TagsX}

DirS == S(<<"/", "s">>)
DirT == S(<<"/", "t">>)
RepoA == S(<<"/", "s", "/", "a", ".", "g", "i", "t">>)
RepoK == S(<<"/", "t", "/", "k", ".", "g", "i", "t">>)
RepoO == S(<<"/", "t", "/", "o", " ", "p", ".", "g", "i", "t">>)
FileF == S(<<"/", "s", "/", "f">>)
Repos == {RepoA, RepoK, RepoO}

\* what filepath.Walk visits under a directory, in lexical order; the files of
\* a repository (all but objects/) follow the repository's own directory
DirEntries ==
    (DirS :> << [type |-> "repo", path |-> RepoA], [type |-> "repofiles", path |-> RepoA],
                [type |-> "file", path |-> FileF] >>) @@
    (DirT :> << [type |-> "repo", path |-> RepoK], [type |-> "repofiles", path |-> RepoK],
                [type |-> "repo", path |-> RepoO], [type |-> "repofiles", path |-> RepoO] >>)

PrefixB1 == S(<<"b", "1">>)
PrefixB2 == S(<<"b", "2">>)

PullSpecS == [dir |-> DirS, prefix |-> PrefixB1]
PullSpecT == [dir |-> DirT, prefix |-> PrefixB2]

\* the pull requests of the model: <dir>:<prefix> lists
PullSpecvs == { <<PullSpecS>>, <<PullSpecT>>, <<PullSpecS, PullSpecT>> }

InitSrcRefs ==
    (RepoA :> ((HeadsM :> Commit2) @@ (TagsV :> Tag1) @@ (TagsX :> NullSha1))) @@
    (RepoK :> ((HeadsM :> Commit1) @@ (TagsV :> NullSha1) @@ (TagsX :> NullSha1))) @@
    (RepoO :> ((HeadsM :> Commit2) @@ (TagsV :> NullSha1) @@ (TagsX :> NullSha1)))

\* sources with references to every kind of object: commits, a tree, a blob,
\* tags of a commit, of a tree, of a blob, of a tag, of a tag of a tag
RichSrcRefs ==
    (RepoA :> ((HeadsM :> Commit2) @@ (TagsV :> Tag1) @@ (TagsX :> Tag3))) @@
    (RepoK :> ((HeadsM :> Commit1) @@ (TagsV :> Tag2) @@ (TagsX :> Tag4))) @@
    (RepoO :> ((HeadsM :> Tree1) @@ (TagsV :> Blob1) @@ (TagsX :> Tag5)))

\* ------------------------------------------------------------ state

VARIABLES
    scene,        \* the processes, pulls and minutes of this behaviour
    clock,        \* time.Now(), in minutes
    srcrefs,      \* source repository -> reference name -> id (NullSha1: no such reference)
    srcfiles,     \* the plain files present in the source directories
    nmods,        \* source modifications so far
    lockref,      \* refs/backup.locked of the backup repository (NullSha1: absent)
    head,         \* HEAD of the backup repository (NullSha1: no commit yet)
    workrefs,     \* references under refs/backup/: records [name, sha1]
    refdirs,      \* the directories refs/backup/<time> present in the git dir
    odb,          \* ids of the source-made objects present in the backup object database
    cstore,       \* commits written by the tool, by content; the id is CommitId(position)
    index,        \* index of the backup repository: records [path, data]
    npulls,       \* pulls started so far
    nfaults,      \* injected failures so far
    pc,           \* per pull process: position in cmd_pull_
    pullspecv,    \* per pull process: argument of cmd_pull_
    backup_time,  \* per pull process: local of cmd_pull_
    HEAD,         \* per pull process: local of cmd_pull_
    alreadyHave,  \* per pull process: local of cmd_pull_
    blobbedv,     \* per pull process: local of cmd_pull_
    pos,          \* per pull process: <<pull spec, entry>> the walk is at
    refv,         \* per pull process: what fetch returned (all references)
    fetchv,       \* per pull process: what fetch returned (fetched references)
    newcommit,    \* per pull process: backup_tree_sha1 / commit_sha1 once made
    refs_list,    \* per pull process: backup_refs_list
    parentv,      \* per pull process: backup_refs_parentv
    armed,        \* per pull process: the deferred lock release is registered
    result,       \* per pull process: how the last pull ended: [status, cause]
    headBefore,   \* history: HEAD of the backup when the pull took the lock
    advertised,   \* history: records [reporef, sha1] the fetches of this pull returned
    started,      \* history: nmods when the pull took the lock
    sinceok,      \* history: pulls started since the last successful pull returned
    lastok,       \* history: the last two successful pulls, newest last
    rpc,          \* restore: position of cmd_restore_ (idle, wait: in wg.Wait, returned)
    restorespecv, \* restore: argument of cmd_restore_
    restoreHEAD,  \* restore: HEAD, the commit restored from
    outdirs,      \* the output directories that exist
    outfiles,     \* the files written below the output directories: records [path, data]
    packs,        \* the packs extracted: records [repopath, objs]
    dpc,          \* restore: position of the dispatcher goroutine
    dpos,         \* restore: <<restore spec, repository of repov>> the dispatcher is at
    packxq,       \* restore: the channel of pack extraction requests
    xqclosed,     \* restore: packxq is closed
    wpc,          \* restore: per worker, its position
    wreq,         \* restore: per worker, the request it works on
    cancelled,    \* restore: ctx of the work group is done
    wgerr,        \* restore: the first error the work group has seen
    rresult,      \* restore: how cmd_restore_ ended
    nrfaults,     \* failures injected into restore so far
    emitted,      \* history: the requests sent to packxq, in order
    user,         \* the identity of the environment: user.name of the git configuration
    encoded,      \* history: the encodings made: records [sha1, sha1_, when, user]
    decoded,      \* history: the decodings made: records [sha1_, ret, err, lost]
    rejected,     \* history: the objects obj_represent_as_commit refused to encode
    escpath,      \* a path handed to path_refescape
    escaped,      \* what path_refescape returned for it: [done, s]
    unescaped,    \* what path_refunescape returned for that: [done, s, ok]
    refsin,       \* the lines of a backup.refs handed to the loader
    splitted,     \* what reporef_split did with the field of one line: [done, at, ok, repo, ref]
    loaded,       \* what the loop of loadBackupRefs made of the lines: [done, ok, repotab]
    fetchcall     \* a call of fetch: [in: [repo, stdout: what ls-remote prints, have: alreadyHave],
                  \* out: [done, mode, err, refv, fetchv, ran, asked, checked, before]]

vars == << scene, clock, srcrefs, srcfiles, nmods, lockref, head, workrefs, refdirs, odb, cstore,
           index, npulls, nfaults, pc, pullspecv, backup_time, HEAD, alreadyHave, blobbedv, pos,
           refv, fetchv, newcommit, refs_list, parentv, armed, result, headBefore, advertised, started,
           sinceok, lastok, rpc, restorespecv, restoreHEAD, outdirs, outfiles, packs, dpc, dpos,
           packxq, xqclosed, wpc, wreq, cancelled, wgerr, rresult, nrfaults, emitted,
           user, encoded, decoded, rejected, escpath, escaped, unescaped, refsin, splitted, loaded,
           fetchcall >>

srcvars == << srcrefs, srcfiles, nmods >>
repovars == << lockref, head, workrefs, refdirs, odb, cstore, index >>
localvars == << pullspecv, backup_time, HEAD, alreadyHave, blobbedv, pos, refv, fetchv,
                newcommit, refs_list, parentv >>
histvars == << headBefore, advertised, started, sinceok, lastok >>
outvars == << outdirs, outfiles, packs >>
restorevars == << rpc, restorespecv, restoreHEAD, dpc, dpos, packxq, xqclosed, wpc, wreq,
                 cancelled, wgerr, rresult, nrfaults, emitted >>
\* what no step of pull touches
encvars == << user, encoded, decoded, rejected >>
\* the calls of path_refescape and path_refunescape watched on their own
escvars == << escpath, escaped, unescaped >>
\* the loading of backup.refs watched on its own
refsvars == << refsin, splitted, loaded >>
\* one call of fetch watched on its own
planvars == << fetchcall >>
othervars == << outvars, restorevars, encvars, escvars, refsvars, planvars >>

\* the largest number of pack workers a restore is run with
MaxJobs == 2
\* -j: the number of pack workers
njobs == scene.jobs
Workers == 1..njobs
\* the workers of the largest pool
Pool == 1..MaxJobs

NoReq == [refs |-> {}, repopath |-> <<>>, prefix |-> <<>>]

NoResult == [status |-> "none", cause |-> "none", held |-> FALSE]

\* nothing has run yet: the sources as laid out, the backup repository just
\* initialised, no restore
\* no call of fetch
NoFetch == [repo |-> << >>, stdout |-> << >>, have |-> {}]

\* fetch has not returned
NotFetched == [done |-> FALSE, mode |-> "complete", err |-> "none", refv |-> << >>, fetchv |-> << >>,
               ran |-> FALSE, asked |-> << >>, checked |-> FALSE, before |-> {}]

InitRest ==
    /\ clock = 0
    /\ splitted = [done |-> FALSE, at |-> 0, ok |-> FALSE, repo |-> << >>, ref |-> << >>]
    /\ loaded = [done |-> FALSE, ok |-> FALSE, repotab |-> {}]
    /\ escaped = [done |-> FALSE, s |-> << >>]
    /\ unescaped = [done |-> FALSE, s |-> << >>, ok |-> FALSE]
    /\ encoded = {}
    /\ decoded = {}
    /\ rejected = {}
    /\ srcfiles = {FileF}
    /\ nmods = 0
    /\ lockref = NullSha1
    /\ head = NullSha1
    /\ workrefs = {}
    /\ refdirs = {}
    /\ cstore = <<>>
    /\ index = {}
    /\ npulls = 0
    /\ nfaults = 0
    /\ pc = [p \in Procs |-> "idle"]
    /\ pullspecv = [p \in Procs |-> <<>>]
    /\ backup_time = [p \in Procs |-> <<>>]
    /\ HEAD = [p \in Procs |-> NullSha1]
    /\ alreadyHave = [p \in Procs |-> {}]
    /\ blobbedv = [p \in Procs |-> {}]
    /\ pos = [p \in Procs |-> <<0, 0>>]
    /\ refv = [p \in Procs |-> <<>>]
    /\ fetchv = [p \in Procs |-> <<>>]
    /\ newcommit = [p \in Procs |-> NullSha1]
    /\ refs_list = [p \in Procs |-> <<>>]
    /\ parentv = [p \in Procs |-> <<>>]
    /\ armed = [p \in Procs |-> FALSE]
    /\ result = [p \in Procs |-> NoResult]
    /\ headBefore = [p \in Procs |-> NullSha1]
    /\ advertised = [p \in Procs |-> {}]
    /\ started = [p \in Procs |-> 0]
    /\ sinceok = 0
    /\ lastok = <<>>
    /\ rpc = "idle"
    /\ restorespecv = <<>>
    /\ restoreHEAD = NullSha1
    /\ outfiles = {}
    /\ packs = {}
    /\ dpc = "off"
    /\ dpos = <<0, 0>>
    /\ packxq = <<>>
    /\ xqclosed = FALSE
    /\ wpc = [w \in Workers |-> "off"]
    /\ wreq = [w \in Workers |-> NoReq]
    /\ cancelled = FALSE
    /\ wgerr = "none"
    /\ rresult = "none"
    /\ nrfaults = 0
    /\ emitted = <<>>

Init ==
    /\ scene \in Scenes
    /\ srcrefs = InitSrcRefs
    /\ odb = {}
    /\ outdirs = {}
    /\ user = "ident"
    /\ escpath = << >>
    /\ refsin = << >>
    /\ fetchcall = [in |-> NoFetch, out |-> NotFetched]
    /\ InitRest

\* ------------------------------------------------------------ object database

\* id of the commit stored at position k: the hash of its content
CommitId(k) == <<16 + ((k * 5) % 8), 100 + k>>

StoredIds(cs) == {CommitId(k) : k \in DOMAIN cs}

Content(cs, id) == cs[CHOOSE k \in DOMAIN cs : CommitId(k) = id]

\* WriteObject(commit): the store is content-addressed
StoreCommit(cs, c) == IF \E k \in DOMAIN cs : cs[k] = c THEN cs ELSE Append(cs, c)

IdOfCommit(cs, c) == CommitId(CHOOSE k \in DOMAIN cs : cs[k] = c)

TreeOfId(sha1) == [kind |-> "id", id |-> sha1, entries |-> {}]
TreeOfBlobItself(sha1) == [kind |-> "id", id |-> sha1, entries |-> {}]
TreeForBlob(sha1) == [kind |-> "tagged", id |-> sha1, entries |-> {}]
TreeOfIndex(idx) == [kind |-> "index", id |-> NullSha1, entries |-> idx]

\* git cat-file -t / %(objecttype)
Kind(cs, id) == IF id \in SrcIds THEN SrcObj[id].kind ELSE "commit"

Range(s) == {s[i] : i \in DOMAIN s}

EdgesParentsOnly(cs, id) ==
    IF id \in SrcIds THEN SrcObj[id].refs
    ELSE IF id \in StoredIds(cs) THEN Range(Content(cs, id).parents)
         ELSE {}

\* the ids an object refers to directly
Edges(cs, id) ==
    IF id \in SrcIds THEN SrcObj[id].refs
    ELSE IF id \in StoredIds(cs)
         THEN LET c == Content(cs, id)
              IN  Range(c.parents) \cup (IF c.tree.kind = "index" THEN {} ELSE {c.tree.id})
         ELSE {}

ParentsOf(cs, id) ==
    IF id \in SrcIds THEN Range(SrcObj[id].parents)
    ELSE IF id \in StoredIds(cs) THEN Range(Content(cs, id).parents)
         ELSE {}

RECURSIVE Reach(_, _, _)
Reach(cs, frontier, seen) ==
    IF frontier = {} THEN seen
    ELSE LET next == UNION {Edges(cs, x) : x \in frontier} \ seen
         IN  Reach(cs, next, seen \cup next)

\* everything reachable from ids, ids included
Closure(cs, ids) == Reach(cs, ids, ids)

RECURSIVE ReachCommits(_, _, _)
ReachCommits(cs, frontier, seen) ==
    IF frontier = {} THEN seen
    ELSE LET next == UNION {ParentsOf(cs, x) : x \in frontier} \ seen
         IN  ReachCommits(cs, next, seen \cup next)

\* git rev-list <commit>
RevList(cs, id) == ReachCommits(cs, {id}, {id})

\* an object is present: a fetched or re-created source object, or a stored commit
Present(o, cs, id) == id \in o \/ id \in StoredIds(cs)

\* ------------------------------------------------------------ commits

\* the time of an AuthorInfo{} left unset: time.Time{}, for which IsZero(); it
\* lies before the epoch
ZeroTime == -1

\* AuthorInfo{}
NoIdent == [name |-> "", when |-> ZeroTime]

\* getDefaultIdent: the identity of the environment, and time.Now()
DefaultIdent(now) == [name |-> user, when |-> now]

\* the identity of the environment and the time of the encoding
FixedIdentNow == DefaultIdent(clock)

\* fixed: AuthorInfo{Name: "Git backup", Email: "git@backup.org", When: time.Unix(0, 0).UTC()}
FixedIdent == [name |-> "Git backup", when |-> 0]

\* the commit object of tree, parents, msg, author (= committer)
CommitObj(tree, parents, msg, author) ==
    [tree |-> tree, parents |-> parents, msg |-> msg, author |-> author]

\* xcommit_tree2: what author leaves unset is taken from the default identity
xcommit_tree2(tree, parents, msg, author, now) ==
    LET ident == DefaultIdent(now)
    IN  CommitObj(tree, parents, msg,
            [name |-> IF author.name = "" THEN ident.name ELSE author.name,
             when |-> IF author.when = ZeroTime THEN ident.when ELSE author.when])

\* xcommit_tree: author and committer default to the environment's identity and now
xcommit_tree(tree, parents, msg, now) == xcommit_tree2(tree, parents, msg, NoIdent, now)

RootCommit(now) ==
    xcommit_tree(TreeOfId(EmptyTree), <<>>, <<"Initialize git-backup repository", <<>>>>, now)

Tagged(sha1) == CHOOSE x \in SrcObj[sha1].refs : TRUE

\* gittypestr: the name of an object type, as bytes
gittypestr(kind) ==
    CASE kind = "commit" -> S(<<"c", "o", "m", "m", "i", "t">>)
      [] kind = "tree"   -> S(<<"t", "r", "e", "e">>)
      [] kind = "blob"   -> S(<<"b", "l", "o", "b">>)
      [] kind = "tag"    -> S(<<"t", "a", "g">>)

\* gittype: the object type of a name; "" when there is none
gittype(name) ==
    IF \E k \in {"commit", "tree", "blob", "tag"} : gittypestr(k) = name
    THEN CHOOSE k \in {"commit", "tree", "blob", "tag"} : gittypestr(k) = name
    ELSE ""

ObjectSp == S(<<"o", "b", "j", "e", "c", "t", " ">>)
TypeSp == S(<<"t", "y", "p", "e", " ">>)
TagV == S(<<"t", "a", "g", " ", "v", "\n">>)

\* the raw data of a tag object: object <id>\ntype <type>\ntag <name>\n...
TagRaw(sha1) ==
    ObjectSp \o Sha1String(Tagged(sha1)) \o <<Ascii["\n"]>>
        \o TypeSp \o gittypestr(SrcObj[Tagged(sha1)].kind) \o <<Ascii["\n"]>> \o TagV

\* the id of an object nobody has made
UnknownSha1 == <<255, 255>>

\* WriteObject(raw, git.ObjectTag): the id is the hash of the data
WriteTag(raw) ==
    LET same == {t \in SrcIds : SrcObj[t].kind = "tag" /\ TagRaw(t) = raw}
    IN  IF same = {} THEN UnknownSha1 ELSE CHOOSE t \in same : TRUE

tag_parseLax(tag_raw) == [ok |-> TRUE, tagged_sha1 |-> NullSha1, tagged_type |-> "commit"]

\* tag_parse: fmt.Sscanf(tag_raw, "object %s\ntype %s\n", ...)
tag_parse(tag_raw) ==
    LET linev == Split(tag_raw, Ascii["\n"])
    IN  IF /\ Len(linev) >= 2
           /\ HasPrefix(linev[1], ObjectSp) /\ Len(linev[1]) = Len(ObjectSp) + 4
           /\ HasPrefix(linev[2], TypeSp)
           /\ gittype(SubSeq(linev[2], Len(TypeSp) + 1, Len(linev[2]))) # ""
        THEN [ok |-> TRUE,
              tagged_sha1 |-> <<FromHex(linev[1][Len(ObjectSp) + 1]) * 16 + FromHex(linev[1][Len(ObjectSp) + 2]),
                                FromHex(linev[1][Len(ObjectSp) + 3]) * 16 + FromHex(linev[1][Len(ObjectSp) + 4])>>,
              tagged_type |-> gittype(SubSeq(linev[2], Len(TypeSp) + 1, Len(linev[2])))]
        ELSE [ok |-> FALSE, tagged_sha1 |-> NullSha1, tagged_type |-> ""]

\* the original object itself is made the parent of the commit that encodes it
ParentsOfEncodedRaw(tagged_type, tagged_sha1, commit1) ==
    IF tagged_type = "tag" THEN <<commit1>> ELSE <<tagged_sha1>>

\* the parents of the commit that encodes an object: the tagged commit, the
\* commit that encodes the tagged tag, none for a tree or a blob
ParentsOfEncoded(tagged_type, tagged_sha1, commit1) ==
    CASE tagged_type = "commit" -> <<tagged_sha1>>
      [] tagged_type = "tag"    -> <<commit1>>
      [] OTHER                  -> <<>>

RECURSIVE obj_represent_as_commit(_, _)
\* obj_represent_as_commit: tag/tree/blob -> [ok: no error raised, cs: the
\* store with the encoding commits written, sha1_: id of the commit that
\* encodes sha1]; the message of the commit is <<first line, rest>>: the object
\* type, the raw tag; any other type: cannot encode as commit
obj_represent_as_commit(cs, sha1) ==
    LET obj_type    == SrcObj[sha1].kind
        tag         == tag_parse(TagRaw(sha1))
        tagged_sha1 == IF obj_type = "tag" THEN tag.tagged_sha1 ELSE sha1
        tagged_type == IF obj_type = "tag" THEN tag.tagged_type ELSE obj_type
        obj_encoded == <<obj_type, IF obj_type = "tag" THEN TagRaw(sha1) ELSE <<>> >>
        zcommit_tree(store, tree, parents) ==
            LET c == xcommit_tree2(tree, parents, obj_encoded, FixedIdent, clock)
            IN  [ok |-> TRUE, cs |-> StoreCommit(store, c),
                 sha1_ |-> IdOfCommit(StoreCommit(store, c), c)]
    IN  CASE obj_type \notin {"tag", "tree", "blob"} ->
                [ok |-> FALSE, cs |-> cs, sha1_ |-> NullSha1]
          [] tagged_type = "commit" ->
                zcommit_tree(cs, TreeOfId(EmptyTree), ParentsOfEncoded(tagged_type, tagged_sha1, NullSha1))
          [] tagged_type = "tree"   ->
                zcommit_tree(cs, TreeOfId(tagged_sha1), ParentsOfEncoded(tagged_type, tagged_sha1, NullSha1))
          [] tagged_type = "blob"   ->
                zcommit_tree(cs, TreeForBlob(tagged_sha1), ParentsOfEncoded(tagged_type, tagged_sha1, NullSha1))
          [] tagged_type = "tag"    ->
                LET commit1 == obj_represent_as_commit(cs, tagged_sha1)
                IN  zcommit_tree(commit1.cs, TreeOfId(EmptyTree),
                                 ParentsOfEncoded(tagged_type, tagged_sha1, commit1.sha1_))

\* the tag whose raw data the commit carries is not written back
WriteBackNone(raw) == {}

\* re-create tag object: the objects WriteObject adds to the database
WriteBack(raw) == {WriteTag(raw)}

RECURSIVE obj_recreate_from_commit(_, _)
\* obj_recreate_from_commit: [ok: no error raised, written: the tag objects
\* written back, sha1: the id returned - the recreated tag, null for an
\* encoded tree or blob, at: the commit id a RecreateObjError carries]; a
\* message without "\n" is a message of one part
obj_recreate_from_commit(cs, commit_sha1) ==
    LET failed == [ok |-> FALSE, written |-> {}, sha1 |-> NullSha1, at |-> commit_sha1]
    IN  IF commit_sha1 \notin StoredIds(cs) THEN failed
        ELSE LET commit   == Content(cs, commit_sha1)
                 obj_type == commit.msg[1]
                 obj_raw  == commit.msg[2]
                 tag      == tag_parse(obj_raw)
             IN  IF Len(commit.parents) > 1 \/ Len(commit.msg) < 2 THEN failed
                 ELSE IF obj_type \notin {"tag", "tree", "blob"} THEN failed
                 ELSE IF obj_type # "tag"
                      THEN [ok |-> TRUE, written |-> {}, sha1 |-> NullSha1, at |-> NullSha1]
                 ELSE IF ~tag.ok THEN [failed EXCEPT !.written = WriteBack(obj_raw)]
                 ELSE IF tag.tagged_type # "tag"
                      THEN [ok |-> TRUE, written |-> WriteBack(obj_raw), sha1 |-> WriteTag(obj_raw),
                            at |-> NullSha1]
                 ELSE IF Len(commit.parents) = 0
                      THEN [failed EXCEPT !.written = WriteBack(obj_raw)]
                 ELSE LET inner == obj_recreate_from_commit(cs, commit.parents[1])
                      IN  [ok      |-> inner.ok,
                           written |-> WriteBack(obj_raw) \cup inner.written,
                           sha1    |-> IF inner.ok THEN WriteTag(obj_raw) ELSE NullSha1,
                           at      |-> inner.at]

\* ------------------------------------------------------------ backup.refs

BackupRefsPath == S(<<"b", "a", "c", "k", "u", "p", ".", "r", "e", "f", "s">>)

HexVal(c) == IF c <= 57 THEN c - 48 ELSE c - 87

\* Sha1Parse of a well-formed hex id
Sha1Parse(s) == <<HexVal(s[1]) * 16 + HexVal(s[2]), HexVal(s[3]) * 16 + HexVal(s[4])>>

\* loadBackupRefs, one line: sha1 prefix+refname (sha1_)
ParseRefEntry(refentry) ==
    LET refentryv == Split(refentry, Space)
    IN  [sha1    |-> Sha1Parse(refentryv[1]),
         reporef |-> refentryv[2],
         sha1_   |-> IF Len(refentryv) = 3 THEN Sha1Parse(refentryv[3])
                     ELSE Sha1Parse(refentryv[1])]

\* the lines of <commit>:backup.refs (none when the tree has no such entry)
BackupRefsOf(cs, commit) ==
    LET tree == Content(cs, commit).tree
        hit  == {e \in tree.entries : e.path = BackupRefsPath}
    IN  IF hit = {} THEN <<>> ELSE (CHOOSE e \in hit : TRUE).data

HasBackupRefs(cs, commit) ==
    \E e \in Content(cs, commit).tree.entries : e.path = BackupRefsPath

\* ------------------------------------------------------------ references

\* time.Now().Format("20060102-1504"): the minute, in fixed width
TimeFormat(now) == <<48 + (now \div 10), 48 + (now % 10)>>

RefsBackup == S(<<"r", "e", "f", "s", "/", "b", "a", "c", "k", "u", "p", "/">>)

\* backup_refs_work: refs/backup/<time>/
BackupRefsWork(time) == RefsBackup \o time \o <<Slash>>

RECURSIVE SortByName(_)
\* references in the order git lists them: by name, bytewise
SortByName(s) ==
    IF s = {} THEN <<>>
    ELSE LET m == CHOOSE x \in s : \A y \in s : ~BytesLess(y.name, x.name)
         IN  <<m>> \o SortByName(s \ {m})

\* the references below prefix, by name from the last to the first
ForEachRefDesc(wr, prefix) ==
    LET v == SortByName({r \in wr : HasPrefix(r.name, prefix)})
    IN  [i \in 1..Len(v) |-> v[Len(v) + 1 - i]]

\* git for-each-ref <prefix>: the references below prefix, sorted by name
ForEachRef(wr, prefix) == SortByName({r \in wr : HasPrefix(r.name, prefix)})

RefsSlash == S(<<"r", "e", "f", "s", "/">>)

\* HEAD and the suffix ^{} of a peeled entry, as bytes
HeadName == <<72, 69, 65, 68>>
PeeledSuffix == <<94, 123, 125>>

RECURSIVE Peel(_)
\* what a tag leads to through the tags it tags
Peel(sha1) ==
    IF SrcObj[sha1].kind = "tag" THEN Peel(CHOOSE x \in SrcObj[sha1].refs : TRUE) ELSE sha1

\* git ls-remote <repo>: one line "<sha1>\t<refname>" per reference, by name;
\* without --refs HEAD is listed too, and after a tag its peeled refs/...^{}
GitLsRemote(sr, repo, onlyrefs) ==
    LET names == {x \in RefNames : sr[repo][x] # NullSha1}
        plain == {[name |-> RefsSlash \o n, sha1 |-> sr[repo][n]] : n \in names}
        peeled == {[name |-> RefsSlash \o n \o PeeledSuffix, sha1 |-> Peel(sr[repo][n])] :
                      n \in {x \in names : SrcObj[sr[repo][x]].kind = "tag"}}
        head_ == {[name |-> HeadName, sha1 |-> sr[repo][n]] : n \in names \cap {HeadsM}}
        v == SortByName(IF onlyrefs THEN plain ELSE plain \cup peeled \cup head_)
    IN  [i \in 1..Len(v) |-> Sha1String(v[i].sha1) \o <<9>> \o v[i].name]

\* git ls-remote <repo>
LsRemotePlain(sr, repo) == GitLsRemote(sr, repo, FALSE)

\* git ls-remote --refs <repo>
LsRemoteRefs(sr, repo) == GitLsRemote(sr, repo, TRUE)

\* fmt.Sscanf(entry, "%s %s\n", &sha1, &ref): an id, white space, a name
ScanEntry(entry) ==
    IF /\ Len(entry) > 5
       /\ \A i \in 1..4 : IsHex(entry[i])
       /\ entry[5] \in {9, Space}
       /\ \A i \in 6..Len(entry) : entry[i] \notin {9, Space}
    THEN [ok |-> TRUE, sha1 |-> Sha1Parse(SubSeq(entry, 1, 4)), ref |-> SubSeq(entry, 6, Len(entry))]
    ELSE [ok |-> FALSE, sha1 |-> NullSha1, ref |-> << >>]

\* lsremote, on the output of ls-remote: [ok: no error, refv: the references
\* listed, their names without "refs/"]
lsremote(stdout) ==
    IF \E i \in DOMAIN stdout :
          ~ScanEntry(stdout[i]).ok \/ ~HasPrefix(ScanEntry(stdout[i]).ref, RefsSlash)
    THEN [ok |-> FALSE, refv |-> << >>]
    ELSE [ok |-> TRUE,
          refv |-> [i \in DOMAIN stdout |->
                       [name |-> SubSeq(ScanEntry(stdout[i]).ref, Len(RefsSlash) + 1,
                                        Len(ScanEntry(stdout[i]).ref)),
                        sha1 |-> ScanEntry(stdout[i]).sha1]]]

\* ------------------------------------------------------------ fetch

Senders == {"complete", "parent", "corrupt"}

Sha1s(v) == {v[i].sha1 : i \in DOMAIN v}

FetchPlanAll(v, have) == v

\* fetch: the references whose id is not in alreadyHave
FetchPlan(v, have) == SelectSeq(v, LAMBDA ref : ref.sha1 \notin have)

\* what the sender's pack holds: everything reachable from the wanted ids, or,
\* with the pack-objects hook of x-commit-send-parent, from their parents only
Sent(mode, tips) ==
    IF mode = "complete" THEN Closure(<<>>, tips)
    ELSE Closure(<<>>, UNION {ParentsOf(<<>>, x) : x \in tips})

NeedNone(cs, tips, roots) == {}

\* git rev-list --objects --not --all --not <tips>: the objects walked
Need(cs, tips, roots) == Closure(cs, tips) \ Closure(cs, roots \ {NullSha1})

ConnectedAlways(o, cs, tips, roots) == TRUE

\* the rev-list walk meets no missing object
Connected(o, cs, tips, roots) == \A x \in Need(cs, tips, roots) : Present(o, cs, x)

\* --all: every reference of the backup repository, and HEAD
AllRefs == {head, lockref} \cup {r.sha1 : r \in workrefs}

fetchReturnsFetched(stdout, have, mode, o, cs, roots) ==
    LET ls   == lsremote(stdout)
        plan == FetchPlan(ls.refv, have)
        got  == o \cup Sent(mode, Sha1s(plan))
        argv == [i \in DOMAIN plan |-> plan[i].sha1]
        failed(cause, ran, checked, db) ==
            [err |-> cause, refv |-> << >>, fetchv |-> << >>, ran |-> ran,
             asked |-> IF ran THEN argv ELSE << >>, checked |-> checked, odb |-> db]
    IN  IF ~ls.ok THEN failed("lsremote", FALSE, FALSE, o)
        ELSE IF Len(plan) = 0
             THEN [err |-> "none", refv |-> plan, fetchv |-> plan, ran |-> FALSE,
                   asked |-> << >>, checked |-> FALSE, odb |-> o]
        ELSE IF mode = "corrupt" THEN failed("fetch", TRUE, FALSE, o)
        ELSE IF Connected(got, cs, Sha1s(plan), roots)
             THEN [err |-> "none", refv |-> plan, fetchv |-> plan, ran |-> TRUE,
                   asked |-> argv, checked |-> TRUE, odb |-> got]
        ELSE failed("incomplete", TRUE, TRUE, got)

\* fetch, given what ls-remote printed: [err: "none" or the error, refv,
\* fetchv: what is returned, ran: fetch-pack was run, asked: the ids on its
\* command line, checked: the rev-list check was run, odb: the object
\* database afterwards]
fetch(stdout, have, mode, o, cs, roots) ==
    LET ls   == lsremote(stdout)
        plan == FetchPlan(ls.refv, have)
        got  == o \cup Sent(mode, Sha1s(plan))
        argv == [i \in DOMAIN plan |-> plan[i].sha1]
        failed(cause, ran, checked, db) ==
            [err |-> cause, refv |-> << >>, fetchv |-> << >>, ran |-> ran,
             asked |-> IF ran THEN argv ELSE << >>, checked |-> checked, odb |-> db]
    IN  IF ~ls.ok THEN failed("lsremote", FALSE, FALSE, o)
        ELSE IF Len(plan) = 0
             THEN [err |-> "none", refv |-> ls.refv, fetchv |-> plan, ran |-> FALSE,
                   asked |-> << >>, checked |-> FALSE, odb |-> o]
        ELSE IF mode = "corrupt" THEN failed("fetch", TRUE, FALSE, o)
        ELSE IF Connected(got, cs, Sha1s(plan), roots)
             THEN [err |-> "none", refv |-> ls.refv, fetchv |-> plan, ran |-> TRUE,
                   asked |-> argv, checked |-> TRUE, odb |-> got]
        ELSE failed("incomplete", TRUE, TRUE, got)

\* ------------------------------------------------------------ pull: helpers

ResetLocals(p) ==
    /\ HEAD' = [HEAD EXCEPT ![p] = NullSha1]
    /\ alreadyHave' = [alreadyHave EXCEPT ![p] = {}]
    /\ blobbedv' = [blobbedv EXCEPT ![p] = {}]
    /\ pos' = [pos EXCEPT ![p] = <<0, 0>>]
    /\ refv' = [refv EXCEPT ![p] = <<>>]
    /\ fetchv' = [fetchv EXCEPT ![p] = <<>>]
    /\ newcommit' = [newcommit EXCEPT ![p] = NullSha1]
    /\ refs_list' = [refs_list EXCEPT ![p] = <<>>]
    /\ parentv' = [parentv EXCEPT ![p] = <<>>]

\* an exception leaves cmd_pull_ and nothing is deferred
RaiseNoDefer(p, cause) ==
    /\ pc' = [pc EXCEPT ![p] = "idle"]
    /\ result' = [result EXCEPT ![p] =
                     [status |-> "failed", cause |-> cause, held |-> armed[p]]]
    /\ pullspecv' = [pullspecv EXCEPT ![p] = <<>>]
    /\ backup_time' = [backup_time EXCEPT ![p] = <<>>]
    /\ ResetLocals(p)

\* an exception leaves cmd_pull_ and the lock release runs, registered or not
RaiseDeferred(p, cause) ==
    /\ pc' = [pc EXCEPT ![p] = "unlock"]
    /\ result' = [result EXCEPT ![p] =
                     [status |-> "failed", cause |-> cause, held |-> armed[p]]]
    /\ UNCHANGED << pullspecv, backup_time >>
    /\ ResetLocals(p)

\* an exception leaves cmd_pull_: the deferred lock release runs when registered
Raise(p, cause) ==
    /\ pc' = [pc EXCEPT ![p] = IF armed[p] THEN "unlock" ELSE "idle"]
    /\ result' = [result EXCEPT ![p] =
                     [status |-> "failed", cause |-> cause, held |-> armed[p]]]
    /\ pullspecv' = [pullspecv EXCEPT ![p] = IF armed[p] THEN @ ELSE <<>>]
    /\ backup_time' = [backup_time EXCEPT ![p] = IF armed[p] THEN @ ELSE <<>>]
    /\ ResetLocals(p)

Goto(p, label) == pc' = [pc EXCEPT ![p] = label]

CurSpec(p) == pullspecv[p][pos[p][1]]
CurEntry(p) == DirEntries[CurSpec(p).dir][pos[p][2]]

\* the walk moves on: next entry, next pull spec, or the end of the loop
WalkOn(p) ==
    LET i == pos[p][1]
        j == pos[p][2]
    IN  IF j < Len(DirEntries[CurSpec(p).dir])
        THEN pos' = [pos EXCEPT ![p] = <<i, j + 1>>] /\ Goto(p, "walk")
        ELSE IF i < Len(pullspecv[p])
             THEN pos' = [pos EXCEPT ![p] = <<i + 1, 0>>] /\ Goto(p, "rm")
             ELSE pos' = [pos EXCEPT ![p] = <<0, 0>>] /\ Goto(p, "index")

\* a path is selected by the pathspec `prefix` of git rm -r
UnderPrefix(path, prefix) == path = prefix \/ HasPrefix(path, prefix \o <<Slash>>)

\* git update-index --add: entries replace what the index has at their paths
IndexAdd(idx, entries) ==
    {e \in idx : \A n \in entries : n.path # e.path} \cup entries

FileData(path) == <<path>>

RefsDir == S(<<"/", "r", "e", "f", "s", "/">>)

\* the reference files of a source repository as the walk finds them
RepoFiles(sr, dir, prefix, repo) ==
    {[path |-> reprefix(dir, prefix, repo) \o RefsDir \o n, data |-> <<Sha1String(sr[repo][n])>>] :
        n \in {x \in RefNames : sr[repo][x] # NullSha1}}

\* reporefprefix + "/" + ref.name
WorkRefName(p, repo, name) ==
    BackupRefsWork(backup_time[p])
        \o path_refescape(reprefix(CurSpec(p).dir, CurSpec(p).prefix, repo))
        \o <<Slash>> \o name

\* the update-ref that takes the lock finds the reference absent
LockFreeAlways(l) == TRUE

LockFree(l) == l = NullSha1

\* git rev-parse --verify HEAD fails
NoHeadAlways(h) == TRUE

NoHead(h) == h = NullSha1

\* only the fetched references are stored
RefsToStoreFetched(all, fetched) == fetched

\* for _, ref := range refv: every reference fetch returned is stored
RefsToStore(all, fetched) == all

\* the id found in the source repository when the reference is stored
RefSha1Reread(ref, sr, repo) == sr[repo][ref.name]

\* the id stored for a reference fetch returned: ref.sha1, as listed by fetch
RefSha1(ref, sr, repo) == ref.sha1

\* mkref: create a reference; it is an error if the reference exists
mkref(wr, name, sha1) ==
    IF \E r \in wr : r.name = name THEN [wr |-> wr, ok |-> FALSE]
    ELSE [wr |-> wr \cup {[name |-> name, sha1 |-> sha1]}, ok |-> TRUE]

RECURSIVE MkRefLoop(_, _)
\* for _, ref := range refv { mkref(...); Raiseif(err) }
MkRefLoop(wr, v) ==
    IF v = <<>> THEN [wr |-> wr, ok |-> TRUE]
    ELSE LET made == mkref(wr, Head(v).name, Head(v).sha1)
         IN  IF made.ok THEN MkRefLoop(made.wr, Tail(v)) ELSE made

\* one line of backup.refs and its parent added: the entry of a reference whose
\* object `enc` stands for
AddBackupRef(acc, work, ref, type_, enc) ==
    [cs      |-> enc.cs,
     lines   |-> Append(acc.lines,
                    Sha1String(ref.sha1) \o <<Space>> \o strip_prefix(work, ref.name)
                        \o (IF type_ # "commit" THEN <<Space>> \o Sha1String(enc.sha1_) ELSE <<>>)),
     parents |-> acc.parents \cup {enc.sha1_}]

\* represent tag/tree/blob as specially crafted commit; a commit stands for itself
EncodeRef(acc, work, ref, type_) ==
    AddBackupRef(acc, work, ref, type_,
                 IF type_ # "commit" THEN obj_represent_as_commit(acc.cs, ref.sha1)
                 ELSE [cs |-> acc.cs, sha1_ |-> ref.sha1])

RECURSIVE BuildBackupRefs(_, _, _)
\* the loop over the for-each-ref dump: backup_refsv, backup_refs_parents and
\* the encoding commits written on the way
BuildBackupRefs(dump, work, acc) ==
    IF dump = <<>> THEN acc
    ELSE BuildBackupRefs(Tail(dump), work,
                         EncodeRef(acc, work, Head(dump), Kind(acc.cs, Head(dump).sha1)))

\* the already-have additions from HEAD:backup.refs: originals of the encoded entries
EncodedOriginals(cs, commit, have) ==
    LET lines == BackupRefsOf(cs, commit)
    IN  {ParseRefEntry(lines[i]).sha1 : i \in
            {k \in DOMAIN lines : /\ ParseRefEntry(lines[k]).sha1 # ParseRefEntry(lines[k]).sha1_
                                  /\ ParseRefEntry(lines[k]).sha1 \notin have}}

RecreatedTagsNone(cs, commit, have) == {}

RecreatedTags(cs, commit, have) ==
    LET lines == BackupRefsOf(cs, commit)
    IN  UNION {obj_recreate_from_commit(cs, ParseRefEntry(lines[i]).sha1_).written : i \in
            {k \in DOMAIN lines : /\ ParseRefEntry(lines[k]).sha1 # ParseRefEntry(lines[k]).sha1_
                                  /\ ParseRefEntry(lines[k]).sha1 \notin have}}

\* ------------------------------------------------------------ the environment

\* a reference of a source repository is moved, or a plain file removed
ModifySource ==
    /\ nmods + nfaults < MaxEvents
    /\ nmods' = nmods + 1
    /\ \/ /\ \E id \in {Commit1, Commit2} \ {srcrefs[RepoK][HeadsM]} :
                srcrefs' = [srcrefs EXCEPT ![RepoK][HeadsM] = id]
          /\ UNCHANGED srcfiles
       \/ /\ FileF \in srcfiles
          /\ srcfiles' = srcfiles \ {FileF}
          /\ UNCHANGED srcrefs
    /\ UNCHANGED << othervars, scene, clock, repovars, npulls, nfaults, pc, localvars, armed, result, histvars >>

\* ------------------------------------------------------------ cmd_pull_

\* time.Now() at the start of cmd_pull_: the clock has not moved, or it has
Start(p, specv, now) ==
    /\ p \in scene.procs
    /\ pc[p] = "idle"
    /\ \A q \in Procs : q < p => pc[q] # "idle"
    /\ npulls < scene.pulls
    /\ now \in {clock, clock + 1} /\ now <= scene.clock
    /\ clock' = now
    /\ npulls' = npulls + 1
    /\ Goto(p, "lock")
    /\ pullspecv' = [pullspecv EXCEPT ![p] = specv]
    /\ backup_time' = [backup_time EXCEPT ![p] = TimeFormat(now)]
    /\ result' = [result EXCEPT ![p] = NoResult]
    /\ sinceok' = sinceok + 1
    /\ UNCHANGED << othervars, scene, srcvars, repovars, nfaults, HEAD, alreadyHave, blobbedv, pos, refv,
                    fetchv, newcommit, refs_list, parentv, armed, headBefore, advertised,
                    started, lastok >>

\* update-ref refs/backup.locked <empty tree> <null>; defer update-ref -d
Lock(p) ==
    /\ pc[p] = "lock"
    /\ odb' = odb \cup {EmptyTree}
    /\ IF LockFree(lockref)
       THEN /\ lockref' = EmptyTree
            /\ armed' = [armed EXCEPT ![p] = TRUE]
            /\ headBefore' = [headBefore EXCEPT ![p] = head]
            /\ started' = [started EXCEPT ![p] = nmods]
            /\ Goto(p, "root")
            /\ UNCHANGED << result, localvars >>
       ELSE /\ Raise(p, "lock")
            /\ UNCHANGED << lockref, armed, headBefore, started >>
    /\ UNCHANGED << othervars, scene, clock, srcvars, head, workrefs, refdirs, cstore, index, npulls, nfaults,
                    advertised, sinceok, lastok >>

\* make sure there is root commit
Root(p) ==
    /\ pc[p] = "root"
    /\ IF NoHead(head)
       THEN LET cs == StoreCommit(cstore, RootCommit(clock))
            IN  /\ cstore' = cs
                /\ head' = IdOfCommit(cs, RootCommit(clock))
                /\ HEAD' = [HEAD EXCEPT ![p] = IdOfCommit(cs, RootCommit(clock))]
       ELSE /\ HEAD' = [HEAD EXCEPT ![p] = head]
            /\ UNCHANGED << cstore, head >>
    /\ Goto(p, "have")
    /\ UNCHANGED << othervars, scene, clock, srcvars, lockref, workrefs, refdirs, odb, index, npulls, nfaults, pullspecv,
                    backup_time, alreadyHave, blobbedv, pos, refv, fetchv, newcommit, refs_list,
                    parentv, armed, result, histvars >>

\* build index of "already-have" objects
Have(p) ==
    /\ pc[p] = "have"
    /\ LET commits == RevList(cstore, HEAD[p])
       IN  /\ alreadyHave' = [alreadyHave EXCEPT ![p] =
                                 commits \cup EncodedOriginals(cstore, HEAD[p], commits)]
           /\ odb' = odb \cup RecreatedTags(cstore, HEAD[p], commits)
    /\ pos' = [pos EXCEPT ![p] = <<1, 0>>]
    /\ Goto(p, "rm")
    /\ UNCHANGED << othervars, scene, clock, srcvars, lockref, head, workrefs, refdirs, cstore, index, npulls, nfaults,
                    pullspecv, backup_time, HEAD, blobbedv, refv, fetchv, newcommit, refs_list,
                    parentv, armed, result, histvars >>

\* git rm --cached -r --ignore-unmatch -- prefix
Rm(p) ==
    /\ pc[p] = "rm"
    /\ index' = {e \in index : ~UnderPrefix(e.path, CurSpec(p).prefix)}
    /\ pos' = [pos EXCEPT ![p] = <<pos[p][1], 1>>]
    /\ Goto(p, "walk")
    /\ UNCHANGED << othervars, scene, clock, srcvars, lockref, head, workrefs, refdirs, odb, cstore, npulls, nfaults,
                    pullspecv, backup_time, HEAD, alreadyHave, blobbedv, refv, fetchv, newcommit,
                    refs_list, parentv, armed, result, histvars >>

\* the walk callback on a plain file: file -> blob, queued for the index
WalkFile(p) ==
    /\ pc[p] = "walk"
    /\ CurEntry(p).type = "file"
    /\ blobbedv' = [blobbedv EXCEPT ![p] =
                       IF CurEntry(p).path \in srcfiles
                       THEN @ \cup {[path |-> reprefix(CurSpec(p).dir, CurSpec(p).prefix, CurEntry(p).path),
                                     data |-> FileData(CurEntry(p).path)]}
                       ELSE @]
    /\ WalkOn(p)
    /\ UNCHANGED << othervars, scene, clock, srcvars, repovars, npulls, nfaults, pullspecv, backup_time, HEAD, alreadyHave,
                    refv, fetchv, newcommit, refs_list, parentv, armed, result, histvars >>

\* the walk callback on the files inside a repository (objects/ is skipped)
WalkRepoFiles(p) ==
    /\ pc[p] = "walk"
    /\ CurEntry(p).type = "repofiles"
    /\ blobbedv' = [blobbedv EXCEPT ![p] =
                       @ \cup RepoFiles(srcrefs, CurSpec(p).dir, CurSpec(p).prefix, CurEntry(p).path)]
    /\ WalkOn(p)
    /\ UNCHANGED << othervars, scene, clock, srcvars, repovars, npulls, nfaults, pullspecv, backup_time, HEAD, alreadyHave,
                    refv, fetchv, newcommit, refs_list, parentv, armed, result, histvars >>

\* history: the references the repository the walk is at has, as the backup
\* is to record them
Advertised(p) ==
    LET repo == CurEntry(p).path
    IN  {[reporef |-> path_refescape(reprefix(CurSpec(p).dir, CurSpec(p).prefix, repo))
                          \o <<Slash>> \o n,
          sha1 |-> srcrefs[repo][n]] : n \in {x \in RefNames : srcrefs[repo][x] # NullSha1}}

\* the walk callback on a *.git directory: fetch(ctx, path, alreadyHave), which
\* lists the advertised references, transfers what is missing and checks that
\* the fetched tips are fully connected
WalkRepo(p, mode) ==
    /\ pc[p] = "walk"
    /\ CurEntry(p).type = "repo"
    /\ mode # "complete" => nmods + nfaults < MaxEvents
    /\ nfaults' = IF mode # "complete" THEN nfaults + 1 ELSE nfaults
    /\ LET f == fetch(LsRemoteRefs(srcrefs, CurEntry(p).path), alreadyHave[p], mode, odb, cstore, AllRefs)
       IN  /\ ~f.ran => mode = "complete"
           /\ odb' = f.odb
           /\ IF f.err = "none"
              THEN /\ refv' = [refv EXCEPT ![p] = f.refv]
                   /\ fetchv' = [fetchv EXCEPT ![p] = f.fetchv]
                   /\ advertised' = [advertised EXCEPT ![p] = @ \cup Advertised(p)]
                   /\ Goto(p, "mkref")
                   /\ UNCHANGED << result, pullspecv, backup_time, HEAD, alreadyHave, blobbedv,
                                   pos, newcommit, refs_list, parentv >>
              ELSE /\ Raise(p, f.err)
                   /\ UNCHANGED advertised
    /\ UNCHANGED << othervars, scene, clock, srcvars, lockref, head, workrefs, refdirs, cstore, index, npulls,
                    armed, headBefore, started, sinceok, lastok >>

\* the references fetch returned are stored under the work namespace
MkRef(p) ==
    /\ pc[p] = "mkref"
    /\ LET repo   == CurEntry(p).path
           storev == RefsToStore(refv[p], fetchv[p])
           namedv == [i \in 1..Len(storev) |->
                         [name |-> WorkRefName(p, repo, storev[i].name),
                          sha1 |-> RefSha1(storev[i], srcrefs, repo)]]
           made   == MkRefLoop(workrefs, namedv)
       IN  /\ workrefs' = made.wr
           /\ refdirs' = IF made.wr # workrefs THEN refdirs \cup {backup_time[p]} ELSE refdirs
           /\ IF made.ok
              THEN /\ WalkOn(p)
                   /\ refv' = [refv EXCEPT ![p] = <<>>]
                   /\ fetchv' = [fetchv EXCEPT ![p] = <<>>]
                   /\ UNCHANGED << result, pullspecv, backup_time, HEAD, alreadyHave, blobbedv,
                                   newcommit, refs_list, parentv >>
              ELSE Raise(p, "mkref")
    /\ UNCHANGED << othervars, scene, clock, srcvars, lockref, head, odb, cstore, index, npulls, nfaults,
                    armed, histvars >>

\* git update-index --add --index-info
UpdateIndex(p) ==
    /\ pc[p] = "index"
    /\ index' = IndexAdd(index, blobbedv[p])
    /\ Goto(p, "refs")
    /\ UNCHANGED << othervars, scene, clock, srcvars, lockref, head, workrefs, refdirs, odb, cstore, npulls, nfaults,
                    localvars, armed, result, histvars >>

\* for-each-ref of the work namespace -> backup.refs (blob, added to the index)
\* and the parents of the backup commit
BuildRefs(p) ==
    /\ pc[p] = "refs"
    /\ refs_list' = [refs_list EXCEPT ![p] = ForEachRef(workrefs, BackupRefsWork(backup_time[p]))]
    /\ \E built \in {BuildBackupRefs(refs_list'[p], BackupRefsWork(backup_time[p]),
                                      [cs |-> cstore, lines |-> <<>>, parents |-> {}])} :
           /\ cstore' = built.cs
           /\ parentv' = [parentv EXCEPT ![p] = SortBySha1(built.parents)]
           /\ index' = IndexAdd(index, {[path |-> BackupRefsPath, data |-> built.lines]})
    /\ Goto(p, "commit")
    /\ UNCHANGED << othervars, scene, clock, srcvars, lockref, head, workrefs, refdirs, odb, npulls, nfaults, pullspecv,
                    backup_time, HEAD, alreadyHave, blobbedv, pos, refv, fetchv, newcommit,
                    armed, result, histvars >>

\* the head alone
CommitParentsHeadOnly(h, pv) == <<h>>

\* the parents of the backup commit
CommitParents(h, pv) == <<h>> \o pv

\* git write-tree; xcommit_tree(tree, HEAD + parents, "Git-backup <time>")
Commit(p) ==
    /\ pc[p] = "commit"
    /\ LET c  == xcommit_tree(TreeOfIndex(index), CommitParents(HEAD[p], parentv[p]),
                              <<"Git-backup ", backup_time[p]>>, clock)
           cs == StoreCommit(cstore, c)
       IN  /\ cstore' = cs
           /\ newcommit' = [newcommit EXCEPT ![p] = IdOfCommit(cs, c)]
    /\ Goto(p, "advance")
    /\ UNCHANGED << othervars, scene, clock, srcvars, lockref, head, workrefs, refdirs, odb, index, npulls, nfaults,
                    pullspecv, backup_time, HEAD, alreadyHave, blobbedv, pos, refv, fetchv,
                    refs_list, parentv, armed, result, histvars >>

\* git update-ref HEAD commit_sha1: the head is moved whatever it is
AdvanceForced(p) ==
    /\ pc[p] = "advance"
    /\ head' = newcommit[p]
    /\ Goto(p, "delete")
    /\ UNCHANGED << result, localvars >>
    /\ UNCHANGED << othervars, scene, clock, srcvars, lockref, workrefs, refdirs, odb, cstore, index, npulls, nfaults,
                    armed, histvars >>

\* git update-ref HEAD commit_sha1 HEAD
Advance(p) ==
    /\ pc[p] = "advance"
    /\ IF head = HEAD[p]
       THEN /\ head' = newcommit[p]
            /\ Goto(p, "delete")
            /\ UNCHANGED << result, localvars >>
       ELSE /\ Raise(p, "update-ref")
            /\ UNCHANGED head
    /\ UNCHANGED << othervars, scene, clock, srcvars, lockref, workrefs, refdirs, odb, cstore, index, npulls, nfaults,
                    armed, histvars >>

\* remove no-longer needed backup refs & verify they don't stay
DeleteRefs(p) ==
    /\ pc[p] = "delete"
    /\ LET left == workrefs \ Range(refs_list[p])
       IN  IF Range(refs_list[p]) \subseteq workrefs
           THEN /\ workrefs' = left
                /\ IF ForEachRef(left, BackupRefsWork(backup_time[p])) = <<>>
                   THEN Goto(p, "rmdir") /\ UNCHANGED << result, localvars >>
                   ELSE Raise(p, "not deleted")
           ELSE /\ Raise(p, "update-ref")
                /\ UNCHANGED workrefs
    /\ UNCHANGED << othervars, scene, clock, srcvars, lockref, head, refdirs, odb, cstore, index, npulls, nfaults,
                    armed, histvars >>

\* os.RemoveAll(gitdir + "/" + backup_refs_work)
RmDir(p) ==
    /\ pc[p] = "rmdir"
    /\ refdirs' = refdirs \ {backup_time[p]}
    /\ workrefs' = {r \in workrefs : ~HasPrefix(r.name, BackupRefsWork(backup_time[p]))}
    /\ Goto(p, "bare")
    /\ UNCHANGED << othervars, scene, clock, srcvars, lockref, head, odb, cstore, index, npulls, nfaults, localvars,
                    armed, result, histvars >>

\* git rev-parse --is-bare-repository: the backup is bare, cmd_pull_ returns
Bare(p) ==
    /\ pc[p] = "bare"
    /\ result' = [result EXCEPT ![p] = [status |-> "ok", cause |-> "none", held |-> TRUE]]
    /\ lastok' = (IF Len(lastok) = 2 THEN Tail(lastok) ELSE lastok) \o
                 << [specv |-> pullspecv[p], mods0 |-> started[p], mods1 |-> nmods,
                     head |-> head, alone |-> sinceok = 1] >>
    /\ sinceok' = 0
    /\ Goto(p, "unlock")
    /\ ResetLocals(p)
    /\ UNCHANGED << othervars, scene, clock, srcvars, repovars, npulls, nfaults, pullspecv, backup_time, armed,
                    headBefore, advertised, started >>

\* the deferred git update-ref -d refs/backup.locked
Unlock(p) ==
    /\ pc[p] = "unlock"
    /\ lockref' = NullSha1
    /\ armed' = [armed EXCEPT ![p] = FALSE]
    /\ Goto(p, "idle")
    /\ pullspecv' = [pullspecv EXCEPT ![p] = <<>>]
    /\ backup_time' = [backup_time EXCEPT ![p] = <<>>]
    /\ headBefore' = [headBefore EXCEPT ![p] = NullSha1]
    /\ advertised' = [advertised EXCEPT ![p] = {}]
    /\ started' = [started EXCEPT ![p] = 0]
    /\ UNCHANGED << othervars, scene, clock, srcvars, head, workrefs, refdirs, odb, cstore, index, npulls, nfaults,
                    HEAD, alreadyHave, blobbedv, pos, refv, fetchv, newcommit, refs_list,
                    parentv, result, sinceok, lastok >>

AbortPcs == {"lock", "root", "have", "rm", "walk", "mkref", "index", "refs", "commit",
             "advance", "delete", "rmdir", "bare"}

\* a git subprocess or a file operation of the current step fails, or the
\* context is cancelled: the step raises without having changed anything
Abort(p, cause) ==
    /\ pc[p] \in AbortPcs
    /\ nmods + nfaults < MaxEvents
    /\ nfaults' = nfaults + 1
    /\ Raise(p, cause)
    /\ UNCHANGED << othervars, scene, clock, srcvars, repovars, npulls, armed, histvars >>

Next ==
    \/ ModifySource
    \/ \E p \in Procs :
          \/ \E specv \in PullSpecvs, now \in 0..MaxClock : Start(p, specv, now)
          \/ Lock(p)
          \/ Root(p)
          \/ Have(p)
          \/ Rm(p)
          \/ WalkFile(p)
          \/ WalkRepoFiles(p)
          \/ \E mode \in Senders : WalkRepo(p, mode)
          \/ MkRef(p)
          \/ UpdateIndex(p)
          \/ BuildRefs(p)
          \/ Commit(p)
          \/ Advance(p)
          \/ DeleteRefs(p)
          \/ RmDir(p)
          \/ Bare(p)
          \/ Unlock(p)
          \/ \E cause \in {"io", "cancel"} : Abort(p, cause)

Spec == Init /\ [][Next]_vars

\* ------------------------------------------------------------ backup.refs, loaded

DotGitSlash == S(<<".", "g", "i", "t", "/">>)

IndexLast(s, sub) ==
    LET hits == {i \in 1..(Len(s) - Len(sub) + 1) : SubSeq(s, i, i + Len(sub) - 1) = sub}
    IN  IF hits = {} THEN 0 ELSE CHOOSE i \in hits : \A j \in hits : j <= i

\* strings.Index(s, sub), counted from 1; 0 when sub is not in s
Index(s, sub) ==
    LET hits == {i \in 1..(Len(s) - Len(sub) + 1) : SubSeq(s, i, i + Len(sub) - 1) = sub}
    IN  IF hits = {} THEN 0 ELSE CHOOSE i \in hits : \A j \in hits : i <= j

\* reporef_split: kirr/wendelin.core.git/heads/master -> kirr/wendelin.core.git, heads/master
\* with the repository name unescaped
reporef_split(reporef) ==
    LET dotgit == Index(reporef, DotGitSlash)
    IN  IF dotgit = 0 THEN [ok |-> FALSE, repo |-> <<>>, ref |-> <<>>]
        ELSE LET un == path_refunescape(SubSeq(reporef, 1, dotgit + 3))
             IN  [ok |-> un.ok, repo |-> un.s, ref |-> SubSeq(reporef, dotgit + 5, Len(reporef))]

RECURSIVE LoadEntriesNoDup(_, _)
LoadEntriesNoDup(lines, repotab) ==
    IF lines = <<>> THEN [ok |-> TRUE, repotab |-> repotab]
    ELSE LET e  == ParseRefEntry(Head(lines))
             sp == reporef_split(e.reporef)
         IN  IF ~sp.ok
             THEN [ok |-> FALSE, repotab |-> {}]
             ELSE LoadEntriesNoDup(Tail(lines),
                      repotab \cup {[repopath |-> sp.repo, name |-> sp.ref,
                                     sha1 |-> e.sha1, sha1_ |-> e.sha1_]})

RECURSIVE LoadEntries(_, _)
\* the loop of loadBackupRefs: repotab as records [repopath, name, sha1, sha1_]
LoadEntries(lines, repotab) ==
    IF lines = <<>> THEN [ok |-> TRUE, repotab |-> repotab]
    ELSE LET e  == ParseRefEntry(Head(lines))
             sp == reporef_split(e.reporef)
         IN  IF ~sp.ok \/ \E r \in repotab : r.repopath = sp.repo /\ r.name = sp.ref
             THEN [ok |-> FALSE, repotab |-> {}]
             ELSE LoadEntries(Tail(lines),
                      repotab \cup {[repopath |-> sp.repo, name |-> sp.ref,
                                     sha1 |-> e.sha1, sha1_ |-> e.sha1_]})

\* loadBackupRefs(<commit>:backup.refs); cat-file fails when there is no such blob
loadBackupRefs(cs, commit) ==
    IF commit \in StoredIds(cs) /\ HasBackupRefs(cs, commit)
    THEN LoadEntries(BackupRefsOf(cs, commit), {})
    ELSE [ok |-> FALSE, repotab |-> {}]

RECURSIVE SortByRepoPath(_)
\* sort.Sort(ByRepoPath(repov)), on the repository paths
SortByRepoPath(paths) ==
    IF paths = {} THEN <<>>
    ELSE LET m == CHOOSE x \in paths : \A y \in paths : ~BytesLess(y, x)
         IN  <<m>> \o SortByRepoPath(paths \ {m})

\* the loop starts at the first repository, whatever the prefix
SearchFromStart(repov, prefix) == 1

\* ByRepoPath.Search: the first position whose repopath is >= prefix
Search(repov, prefix) ==
    LET ge == {i \in DOMAIN repov : ~BytesLess(repov[i], prefix)}
    IN  IF ge = {} THEN Len(repov) + 1 ELSE CHOOSE i \in ge : \A j \in ge : i <= j

\* repo.refs: the RefMap of a repository
RefsOf(repotab, repopath) ==
    {[name |-> r.name, sha1 |-> r.sha1, sha1_ |-> r.sha1_] : r \in {x \in repotab : x.repopath = repopath}}

\* the ids of the encoding commits instead of the original ids
Sha1HeadsEncoded(refs) == {r.sha1_ : r \in refs}

\* RefMap.Sha1Heads: the original ids the references point to
Sha1Heads(refs) == {r.sha1 : r \in refs}

RECURSIVE SortByRefname(_)
\* sort.Sort(ByRefname(repo_refs))
SortByRefname(refs) ==
    IF refs = {} THEN <<>>
    ELSE LET m == CHOOSE x \in refs : \A y \in refs : ~BytesLess(y.name, x.name)
         IN  <<m>> \o SortByRefname(refs \ {m})

SpaceRefs == S(<<" ", "r", "e", "f", "s", "/">>)

RepoRefListEncoded(refs) ==
    LET v == SortByRefname(refs)
    IN  [i \in 1..Len(v) |-> Sha1String(v[i].sha1_) \o SpaceRefs \o v[i].name]

\* repo_ref_list: "<sha1> refs/<name>" of the references of backup.refs, by name
RepoRefList(refs) ==
    LET v == SortByRefname(refs)
    IN  [i \in 1..Len(v) |-> Sha1String(v[i].sha1) \o SpaceRefs \o v[i].name]

\* git for-each-ref --format="%(objectname) %(refname)" in an extracted
\* repository: what the files below <repopath>/refs/ say, by name
XRefList(files, repopath) ==
    LET found == {[name |-> SubSeq(f.path, Len(repopath \o RefsDir) + 1, Len(f.path)),
                   sha1 |-> Sha1Parse(f.data[1]), sha1_ |-> Sha1Parse(f.data[1])] :
                     f \in {x \in files : HasPrefix(x.path, repopath \o RefsDir)}}
    IN  RepoRefList(found)

\* ------------------------------------------------------------ cmd_restore_

\* restores of one behaviour follow its pulls
MaxBackups == 1
\* failures injected into one restore
MaxRestoreFaults == 1

DirR1 == S(<<"/", "r", "1">>)
DirR2 == S(<<"/", "r", "2">>)

RestoreSpecB1 == [prefix |-> PrefixB1, dir |-> DirR1]
RestoreSpecB2 == [prefix |-> PrefixB2, dir |-> DirR2]

\* the restore requests of the model: <prefix>:<dir> lists
RestoreSpecvs == { <<RestoreSpecB1>>, <<RestoreSpecB2>>, <<RestoreSpecB1, RestoreSpecB2>> }

\* the output directories that may exist before restore runs
PreExisting == { {}, {DirR1}, {DirR2} }

\* repov: the repositories of backup.refs, sorted
Repov == SortByRepoPath({r.repopath : r \in loadBackupRefs(cstore, restoreHEAD).repotab})

CurRestoreSpec == restorespecv[dpos[1]]

\* the request for the repository the dispatcher is at
CurReq ==
    [refs     |-> RefsOf(loadBackupRefs(cstore, restoreHEAD).repotab, Repov[dpos[2]]),
     repopath |-> reprefix(CurRestoreSpec.prefix, CurRestoreSpec.dir, Repov[dpos[2]]),
     prefix   |-> CurRestoreSpec.prefix]

\* the first error is kept, the context is left as it is
GroupErrorKept(cause) ==
    /\ wgerr' = IF wgerr = "none" THEN cause ELSE wgerr
    /\ UNCHANGED cancelled

\* the error a goroutine returns reaches the work group: the first one is
\* kept and the context of the group is cancelled
GroupError(cause) ==
    /\ wgerr' = IF wgerr = "none" THEN cause ELSE wgerr
    /\ cancelled' = TRUE

\* the dispatcher returns: the deferred close(packxq) runs
DispatcherRaise(cause) ==
    /\ dpc' = "done"
    /\ xqclosed' = TRUE
    /\ GroupError(cause)

\* the loop over the repositories of a restore spec goes on at position j, or
\* the loop over the restore specs moves on, or the dispatcher returns nil
DispatchOn(j) ==
    LET i == dpos[1]
    IN  IF j <= Len(Repov) /\ HasPrefix(Repov[j], CurRestoreSpec.prefix)
        THEN dpos' = <<i, j>> /\ dpc' = "recreate" /\ UNCHANGED xqclosed
        ELSE IF i < Len(restorespecv)
             THEN dpos' = <<i + 1, 0>> /\ dpc' = "mkdir" /\ UNCHANGED xqclosed
             ELSE dpos' = <<0, 0>> /\ dpc' = "done" /\ xqclosed' = TRUE

\* cmd_restore_ up to wg.Wait: rev-parse --verify HEAD, loadBackupRefs, the
\* dispatcher and the workers are spawned
RestoreStart(specv) ==
    /\ rpc = "idle"
    /\ npulls = scene.pulls
    /\ \A p \in Procs : pc[p] = "idle"
    /\ restorespecv' = specv
    /\ IF head # NullSha1 /\ loadBackupRefs(cstore, head).ok
       THEN /\ restoreHEAD' = head
            /\ rpc' = "wait"
            /\ dpc' = "mkdir"
            /\ dpos' = <<1, 0>>
            /\ wpc' = [w \in Workers |-> "recv"]
            /\ UNCHANGED << wgerr, rresult >>
       ELSE /\ rpc' = "returned"
            /\ rresult' = "failed"
            /\ wgerr' = "load"
            /\ UNCHANGED << restoreHEAD, dpc, dpos, wpc >>
    /\ UNCHANGED << scene, clock, srcvars, repovars, npulls, nfaults, pc, localvars, armed, result,
                    histvars, encvars, escvars, refsvars, planvars, outvars, packxq, xqclosed, wreq, cancelled, nrfaults, emitted >>

\* ensure dir did not exist before restore run: os.Mkdir(dir)
Mkdir ==
    /\ dpc = "mkdir"
    /\ IF CurRestoreSpec.dir \in outdirs
       THEN /\ DispatcherRaise("mkdir")
            /\ UNCHANGED << outdirs, dpos >>
       ELSE /\ outdirs' = outdirs \cup {CurRestoreSpec.dir}
            /\ dpc' = "files"
            /\ UNCHANGED << dpos, xqclosed, wgerr, cancelled >>
    /\ UNCHANGED << scene, clock, srcvars, repovars, npulls, nfaults, pc, localvars, armed, result,
                    histvars, encvars, escvars, refsvars, planvars, outfiles, packs, rpc, restorespecv, restoreHEAD, packxq, wpc, wreq,
                    rresult, nrfaults, emitted >>

\* git ls-tree -r HEAD prefix: the entries below prefix
LsTree(cs, commit, prefix) == {e \in Content(cs, commit).tree.entries : UnderPrefix(e.path, prefix)}

\* files: every blob below prefix is written to its place below dir
Files ==
    /\ dpc = "files"
    /\ outfiles' = outfiles \cup
           {[path |-> reprefix(CurRestoreSpec.prefix, CurRestoreSpec.dir, e.path), data |-> e.data] :
               e \in LsTree(cstore, restoreHEAD, CurRestoreSpec.prefix)}
    /\ DispatchOn(Search(Repov, CurRestoreSpec.prefix))
    /\ UNCHANGED << scene, clock, srcvars, repovars, npulls, nfaults, pc, localvars, armed, result,
                    histvars, encvars, escvars, refsvars, planvars, outdirs, packs, rpc, restorespecv, restoreHEAD, packxq, wpc, wreq,
                    cancelled, wgerr, rresult, nrfaults, emitted >>

\* nothing is decoded before the request is sent
ToRecreateNone(refs) == {}

\* the references whose object is kept encoded: sha1 != sha1_
ToRecreate(refs) == {r \in refs : r.sha1 # r.sha1_}

\* git packs: make sure tag/tree/blob objects represented as commits are
\* present, before we generate pack for restored repo
Recreate ==
    /\ dpc = "recreate"
    /\ odb' = odb \cup UNION {obj_recreate_from_commit(cstore, r.sha1_).written :
                                  r \in ToRecreate(CurReq.refs)}
    /\ dpc' = "send"
    /\ UNCHANGED << scene, clock, srcvars, lockref, head, workrefs, refdirs, cstore, index, npulls,
                    nfaults, pc, localvars, armed, result, histvars, encvars, escvars, refsvars, planvars, outvars, rpc, restorespecv,
                    restoreHEAD, dpos, packxq, xqclosed, wpc, wreq, cancelled, wgerr, rresult,
                    nrfaults, emitted >>

\* packxq <- PackExtractReq{...}: there is room in the channel
Send ==
    /\ dpc = "send"
    /\ Len(packxq) < 2 * njobs
    /\ packxq' = Append(packxq, CurReq)
    /\ emitted' = Append(emitted, CurReq)
    /\ DispatchOn(dpos[2] + 1)
    /\ UNCHANGED << scene, clock, srcvars, repovars, npulls, nfaults, pc, localvars, armed, result,
                    histvars, encvars, escvars, refsvars, planvars, outvars, rpc, restorespecv, restoreHEAD, wpc, wreq, cancelled, wgerr,
                    rresult, nrfaults >>

DispatcherPcs == {"mkdir", "files", "recreate", "send"}

\* the dispatcher finds the context done (ctx.Err() in the files loop,
\* <-ctx.Done() at the send, a git subprocess killed) and returns its error
DispatcherCancelled ==
    /\ dpc \in DispatcherPcs \ {"mkdir"}
    /\ cancelled
    /\ DispatcherRaise("canceled")
    /\ UNCHANGED << scene, clock, srcvars, repovars, npulls, nfaults, pc, localvars, armed, result,
                    histvars, encvars, escvars, refsvars, planvars, outvars, rpc, restorespecv, restoreHEAD, dpos, packxq, wpc, wreq,
                    rresult, nrfaults, emitted >>

\* the worker returns with an error
WorkerRaise(w, cause) ==
    /\ wpc' = [wpc EXCEPT ![w] = "done"]
    /\ wreq' = [wreq EXCEPT ![w] = NoReq]
    /\ GroupError(cause)

\* case p, ok := <-packxq: a request is received
Recv(w) ==
    /\ w \in Workers
    /\ wpc[w] = "recv"
    /\ packxq # <<>>
    /\ wreq' = [wreq EXCEPT ![w] = Head(packxq)]
    /\ packxq' = Tail(packxq)
    /\ wpc' = [wpc EXCEPT ![w] = "extract"]
    /\ UNCHANGED << scene, clock, srcvars, repovars, npulls, nfaults, pc, localvars, armed, result,
                    histvars, encvars, escvars, refsvars, planvars, outvars, rpc, restorespecv, restoreHEAD, dpc, dpos, xqclosed,
                    cancelled, wgerr, rresult, nrfaults, emitted >>

\* case p, ok := <-packxq with !ok: the channel is closed and drained
RecvClosed(w) ==
    /\ w \in Workers
    /\ wpc[w] = "recv"
    /\ packxq = <<>>
    /\ xqclosed
    /\ wpc' = [wpc EXCEPT ![w] = "done"]
    /\ UNCHANGED << scene, clock, srcvars, repovars, npulls, nfaults, pc, localvars, armed, result,
                    histvars, encvars, escvars, refsvars, planvars, outvars, rpc, restorespecv, restoreHEAD, dpc, dpos, packxq, xqclosed,
                    wreq, cancelled, wgerr, rresult, nrfaults, emitted >>

WorkerPcs == {"recv", "extract", "verify", "connectivity"}

\* case <-ctx.Done(), or the git subprocess of the current step is killed
WorkerCancelled(w) ==
    /\ w \in Workers
    /\ wpc[w] \in WorkerPcs
    /\ cancelled
    /\ WorkerRaise(w, "canceled")
    /\ UNCHANGED << scene, clock, srcvars, repovars, npulls, nfaults, pc, localvars, armed, result,
                    histvars, encvars, escvars, refsvars, planvars, outvars, rpc, restorespecv, restoreHEAD, dpc, dpos, packxq, xqclosed,
                    rresult, nrfaults, emitted >>

\* git pack-objects --revs <repopath>/objects/pack/pack, fed the original
\* heads: everything reachable from them, which must be in the backup
Extract(w) ==
    /\ w \in Workers
    /\ wpc[w] = "extract"
    /\ LET objs == Closure(cstore, Sha1Heads(wreq[w].refs))
       IN  IF \A x \in objs : Present(odb, cstore, x)
           THEN /\ packs' = packs \cup {[repopath |-> wreq[w].repopath, objs |-> objs]}
                /\ wpc' = [wpc EXCEPT ![w] = "verify"]
                /\ UNCHANGED << wreq, wgerr, cancelled >>
           ELSE /\ WorkerRaise(w, "pack-objects")
                /\ UNCHANGED packs
    /\ UNCHANGED << scene, clock, srcvars, repovars, npulls, nfaults, pc, localvars, armed, result,
                    histvars, encvars, escvars, refsvars, planvars, outdirs, outfiles, rpc, restorespecv, restoreHEAD, dpc, dpos, packxq,
                    xqclosed, rresult, nrfaults, emitted >>

\* verify that extracted repo refs match backup.refs index after extraction
Verify(w) ==
    /\ w \in Workers
    /\ wpc[w] = "verify"
    /\ IF XRefList(outfiles, wreq[w].repopath) = RepoRefList(wreq[w].refs)
       THEN /\ wpc' = [wpc EXCEPT ![w] = "connectivity"]
            /\ UNCHANGED << wreq, wgerr, cancelled >>
       ELSE WorkerRaise(w, "refs corrupt")
    /\ UNCHANGED << scene, clock, srcvars, repovars, npulls, nfaults, pc, localvars, armed, result,
                    histvars, encvars, escvars, refsvars, planvars, outvars, rpc, restorespecv, restoreHEAD, dpc, dpos, packxq, xqclosed,
                    rresult, nrfaults, emitted >>

\* the objects of the pack extracted into repopath
PackOf(ps, repopath) == UNION {p.objs : p \in {x \in ps : x.repopath = repopath}}

\* check connectivity in recreated repository: rev-list --objects of the heads
Connectivity(w) ==
    /\ w \in Workers
    /\ wpc[w] = "connectivity"
    /\ IF Closure(cstore, Sha1Heads(wreq[w].refs)) \subseteq PackOf(packs, wreq[w].repopath)
       THEN /\ wpc' = [wpc EXCEPT ![w] = "recv"]
            /\ wreq' = [wreq EXCEPT ![w] = NoReq]
            /\ UNCHANGED << wgerr, cancelled >>
       ELSE WorkerRaise(w, "connectivity")
    /\ UNCHANGED << scene, clock, srcvars, repovars, npulls, nfaults, pc, localvars, armed, result,
                    histvars, encvars, escvars, refsvars, planvars, outvars, rpc, restorespecv, restoreHEAD, dpc, dpos, packxq, xqclosed,
                    rresult, nrfaults, emitted >>

\* a git subprocess or a file operation of the dispatcher fails
DispatcherFault ==
    /\ dpc \in DispatcherPcs \ {"send"}
    /\ nrfaults < MaxRestoreFaults
    /\ nrfaults' = nrfaults + 1
    /\ DispatcherRaise("io")
    /\ UNCHANGED << scene, clock, srcvars, repovars, npulls, nfaults, pc, localvars, armed, result,
                    histvars, encvars, escvars, refsvars, planvars, outvars, rpc, restorespecv, restoreHEAD, dpos, packxq, wpc, wreq,
                    rresult, emitted >>

\* a git subprocess of a worker fails
WorkerFault(w) ==
    /\ w \in Workers
    /\ wpc[w] \in WorkerPcs \ {"recv"}
    /\ nrfaults < MaxRestoreFaults
    /\ nrfaults' = nrfaults + 1
    /\ WorkerRaise(w, "io")
    /\ UNCHANGED << scene, clock, srcvars, repovars, npulls, nfaults, pc, localvars, armed, result,
                    histvars, encvars, escvars, refsvars, planvars, outvars, rpc, restorespecv, restoreHEAD, dpc, dpos, packxq, xqclosed,
                    rresult, emitted >>

\* the context cmd_restore_ was called with is cancelled (a signal)
Cancel ==
    /\ rpc = "wait"
    /\ ~cancelled
    /\ nrfaults < MaxRestoreFaults
    /\ nrfaults' = nrfaults + 1
    /\ cancelled' = TRUE
    /\ UNCHANGED << scene, clock, srcvars, repovars, npulls, nfaults, pc, localvars, armed, result,
                    histvars, encvars, escvars, refsvars, planvars, outvars, rpc, restorespecv, restoreHEAD, dpc, dpos, packxq, xqclosed,
                    wpc, wreq, wgerr, rresult, emitted >>

\* the dispatcher has returned, the workers may still run
DispatcherExited == dpc = "done"

\* wg.Wait returns when every goroutine of the group has returned
AllExited == dpc = "done" /\ \A w \in Workers : wpc[w] = "done"

\* wait for workers to finish & collect/reraise first error, if any
Wait ==
    /\ rpc = "wait"
    /\ AllExited
    /\ rpc' = "returned"
    /\ rresult' = IF wgerr = "none" THEN "ok" ELSE "failed"
    /\ UNCHANGED << scene, clock, srcvars, repovars, npulls, nfaults, pc, localvars, armed, result,
                    histvars, encvars, escvars, refsvars, planvars, outvars, restorespecv, restoreHEAD, dpc, dpos, packxq, xqclosed, wpc,
                    wreq, cancelled, wgerr, nrfaults, emitted >>

\* git prune, git repack -ad in the backup repository: objects that no
\* reference reaches are gone
Prune ==
    /\ rpc = "idle"
    /\ \A p \in Procs : pc[p] = "idle"
    /\ odb' = odb \cap Closure(cstore, AllRefs \ {NullSha1})
    /\ odb' # odb
    /\ UNCHANGED << scene, clock, srcvars, lockref, head, workrefs, refdirs, cstore, index, npulls,
                    nfaults, pc, localvars, armed, result, histvars, othervars >>

\* one pull into a fresh backup, then one restore
RestoreScene == [procs |-> {1}, pulls |-> MaxBackups, clock |-> 0, jobs |-> 2]

RestoreInit ==
    /\ scene = RestoreScene
    /\ srcrefs = RichSrcRefs
    /\ odb = {}
    /\ user = "ident"
    /\ outdirs \in PreExisting
    /\ escpath = << >>
    /\ refsin = << >>
    /\ fetchcall = [in |-> NoFetch, out |-> NotFetched]
    /\ InitRest

RestoreNext ==
    \/ Next
    \/ Prune
    \/ \E specv \in RestoreSpecvs : RestoreStart(specv)
    \/ Mkdir
    \/ Files
    \/ Recreate
    \/ Send
    \/ DispatcherCancelled
    \/ DispatcherFault
    \/ Cancel
    \/ Wait
    \/ \E w \in Pool :
          \/ Recv(w)
          \/ RecvClosed(w)
          \/ WorkerCancelled(w)
          \/ Extract(w)
          \/ Verify(w)
          \/ Connectivity(w)
          \/ WorkerFault(w)

RestoreSpec == RestoreInit /\ [][RestoreNext]_vars

\* the steps of the goroutines of restore and of cmd_restore_ itself, without
\* the failures of the environment
RestoreEngine ==
    \/ Mkdir
    \/ Files
    \/ Recreate
    \/ Send
    \/ DispatcherCancelled
    \/ Wait
    \/ \E w \in Pool :
          \/ Recv(w)
          \/ RecvClosed(w)
          \/ WorkerCancelled(w)
          \/ Extract(w)
          \/ Verify(w)
          \/ Connectivity(w)

\* one pull by one process that nothing disturbs
QuietPull ==
    \/ \E specv \in PullSpecvs : Start(1, specv, 0)
    \/ Lock(1)
    \/ Root(1)
    \/ Have(1)
    \/ Rm(1)
    \/ WalkFile(1)
    \/ WalkRepoFiles(1)
    \/ WalkRepo(1, "complete")
    \/ MkRef(1)
    \/ UpdateIndex(1)
    \/ BuildRefs(1)
    \/ Commit(1)
    \/ Advance(1)
    \/ DeleteRefs(1)
    \/ RmDir(1)
    \/ Bare(1)
    \/ Unlock(1)

\* an undisturbed pull, then a restore that the environment may disturb
RestoreFairNext ==
    \/ QuietPull
    \/ Prune
    \/ \E specv \in RestoreSpecvs : RestoreStart(specv)
    \/ RestoreEngine
    \/ DispatcherFault
    \/ Cancel
    \/ \E w \in Pool : WorkerFault(w)

\* the steps by which the dispatcher gets to see that the context is done:
\* os.Mkdir does not look at the context, the steps after it do
DispatcherUnwind == Mkdir \/ DispatcherCancelled

\* the steps by which a worker leaves its loop: the context is done, or the
\* channel is closed and drained
WorkerUnwind(w) == WorkerCancelled(w) \/ RecvClosed(w)

\* the Go scheduler runs a goroutine that can take a step; what is assumed
\* here is less: a goroutine that can go on leaving does so, and wg.Wait
\* returns once it can
RestoreFairSpec ==
    /\ RestoreInit
    /\ [][RestoreFairNext]_vars
    /\ WF_vars(DispatcherUnwind)
    /\ WF_vars(Wait)
    /\ \A w \in Pool : WF_vars(WorkerUnwind(w))

\* ------------------------------------------------------------ the pool of workers

\* one pull into a fresh backup, then one restore with -j 1, -j 2, ...
PoolScenes == {[procs |-> {1}, pulls |-> MaxBackups, clock |-> 0, jobs |-> j] : j \in 1..MaxJobs}

PoolInit ==
    /\ scene \in PoolScenes
    /\ srcrefs = RichSrcRefs
    /\ odb = {}
    /\ user = "ident"
    /\ outdirs = {}
    /\ escpath = << >>
    /\ refsin = << >>
    /\ fetchcall = [in |-> NoFetch, out |-> NotFetched]
    /\ InitRest

DirR3 == S(<<"/", "r", "3">>)

\* restore requests that ask for more repositories than the channel of one
\* worker, or of two, holds: the prefix with two repositories, restored into
\* three directories
PoolSpecvs ==
    { <<RestoreSpecB1>>,
      <<RestoreSpecB2, [prefix |-> PrefixB2, dir |-> DirR1], [prefix |-> PrefixB2, dir |-> DirR3]>> }

\* an undisturbed pull, then a restore that the environment may disturb
PoolNext ==
    \/ QuietPull
    \/ \E specv \in PoolSpecvs : RestoreStart(specv)
    \/ RestoreEngine
    \/ DispatcherFault
    \/ Cancel
    \/ \E w \in Pool : WorkerFault(w)

\* the select of the dispatcher can go on: there is room in the channel, or
\* the context is done
SendReady == dpc = "send" /\ (Len(packxq) < 2 * njobs \/ cancelled)

\* the select of a worker can go on: there is a request in the channel, the
\* channel is closed, or the context is done
RecvReady(w) == w \in Workers /\ wpc[w] = "recv" /\ (packxq # << >> \/ xqclosed \/ cancelled)

\* a worker is in a git subprocess
AtGit(w, step) == w \in Workers /\ wpc[w] = step

\* fair scheduling and terminating git subprocesses: os.Mkdir and every git
\* subprocess of the dispatcher and of the workers come to an end, well or
\* with an error; a goroutine whose select can go on goes on; wg.Wait
\* returns once it can. Every step of a goroutine leaves the position it was
\* taken at, so that weak fairness of the steps at a position is: the
\* goroutine is again and again not ready at that position.
PoolSpec ==
    /\ PoolInit
    /\ [][PoolNext]_vars
    /\ []<>(dpc # "mkdir")
    /\ []<>(dpc # "files")
    /\ []<>(dpc # "recreate")
    /\ []<>(~SendReady)
    /\ \A w \in Pool :
          /\ []<>(~RecvReady(w))
          /\ []<>(~AtGit(w, "extract"))
          /\ []<>(~AtGit(w, "verify"))
          /\ []<>(~AtGit(w, "connectivity"))
    /\ WF_vars(Wait)

\* ------------------------------------------------------------ a prefix that is no directory

\* a prefix that is the beginning of the names of the directories b1 and b2
\* of the backup, and is no directory of it
PrefixB == S(<<"b">>)

\* restore requests: a directory of the backup, and what only begins like one
SiblingSpecvs == { <<RestoreSpecB1>>, <<[prefix |-> PrefixB, dir |-> DirR1]>> }

SiblingInit ==
    /\ scene = RestoreScene
    /\ srcrefs = RichSrcRefs
    /\ odb = {}
    /\ user = "ident"
    /\ outdirs = {}
    /\ escpath = << >>
    /\ refsin = << >>
    /\ fetchcall = [in |-> NoFetch, out |-> NotFetched]
    /\ InitRest

\* an undisturbed pull, then a restore that the environment may disturb
SiblingNext ==
    \/ QuietPull
    \/ \E specv \in SiblingSpecvs : RestoreStart(specv)
    \/ RestoreEngine
    \/ DispatcherFault
    \/ Cancel
    \/ \E w \in Pool : WorkerFault(w)

SiblingSpec == SiblingInit /\ [][SiblingNext]_vars

\* ------------------------------------------------------------ encoding and decoding

\* encodings made in one behaviour
MaxEncodings == 2
\* decodings made in one behaviour
MaxDecodings == 1
\* minutes the clock can advance while objects are encoded
MaxNow == 1

Users == {"ident", "other"}

\* the objects pull encodes: what is no commit
Encodable == {x \in SrcIds : SrcObj[x].kind # "commit" /\ x # EmptyTree}

Tags == {x \in SrcIds : SrcObj[x].kind = "tag"}

RECURSIVE TagChain(_)
\* a tag and the tags it tags, directly or through tags
TagChain(sha1) ==
    IF SrcObj[sha1].kind # "tag" THEN {}
    ELSE {sha1} \cup TagChain(Tagged(sha1))

\* a repository that holds every object of the sources and no encoding yet
EncInit ==
    /\ scene = RestoreScene
    /\ srcrefs = RichSrcRefs
    /\ odb = SrcIds
    /\ outdirs = {}
    /\ user \in Users
    /\ escpath = << >>
    /\ refsin = << >>
    /\ fetchcall = [in |-> NoFetch, out |-> NotFetched]
    /\ InitRest

\* what neither encoding nor decoding touches
nonencvars == << scene, srcvars, lockref, head, workrefs, refdirs, index, npulls, nfaults, pc,
                 localvars, armed, result, histvars, outvars, restorevars, escvars, refsvars,
                 planvars >>

\* obj_represent_as_commit(sha1): the tag objects it loads are there
EncodeObject(sha1) ==
    /\ Cardinality(encoded) < MaxEncodings
    /\ TagChain(sha1) \subseteq odb
    /\ LET enc == obj_represent_as_commit(cstore, sha1)
       IN  IF enc.ok
           THEN /\ cstore' = enc.cs
                /\ encoded' = encoded \cup
                       {[sha1 |-> sha1, sha1_ |-> enc.sha1_, when |-> clock, user |-> user]}
                /\ UNCHANGED rejected
           ELSE /\ rejected' = rejected \cup {sha1}
                /\ UNCHANGED << cstore, encoded >>
    /\ UNCHANGED << nonencvars, clock, odb, user, decoded >>

\* obj_recreate_from_commit(sha1_)
DecodeCommit(sha1_) ==
    /\ Cardinality(decoded) < MaxDecodings
    /\ sha1_ \in StoredIds(cstore)
    /\ LET dec == obj_recreate_from_commit(cstore, sha1_)
       IN  /\ odb' = odb \cup dec.written
           /\ decoded' = decoded \cup
                  {[sha1_ |-> sha1_, ret |-> IF dec.ok THEN dec.sha1 ELSE UnknownSha1,
                    err |-> dec.at, lost |-> Tags \ odb]}
    /\ UNCHANGED << nonencvars, clock, cstore, user, encoded, rejected >>

\* git prune, git repack -ad: no reference reaches a tag object
PruneTags ==
    /\ odb \cap Tags # {}
    /\ odb' = odb \ Tags
    /\ UNCHANGED << nonencvars, clock, cstore, encvars >>

\* time passes
Tick ==
    /\ clock < MaxNow
    /\ clock' = clock + 1
    /\ UNCHANGED << nonencvars, odb, cstore, encvars >>

\* the tool is run by somebody else
SetUser(u) ==
    /\ u # user
    /\ user' = u
    /\ UNCHANGED << nonencvars, clock, odb, cstore, encoded, decoded, rejected >>

EncNext ==
    \/ \E sha1 \in Encodable : EncodeObject(sha1)
    \/ \E k \in 1..(3 * MaxEncodings) : DecodeCommit(CommitId(k))
    \/ PruneTags
    \/ Tick
    \/ \E u \in Users : SetUser(u)

EncSpec == EncInit /\ [][EncNext]_vars

\* ------------------------------------------------------------ the decoder on commits of any make

\* commits in the repository that no encoding made
MaxCrafted == 1

\* commits obj_represent_as_commit does not make: with two parents; with a first
\* line that names no tag, tree or blob (a commit; the root commit of a backup);
\* with a message of one line without "\n"; with a tag that does not parse;
\* with a tag of a tag and no parent, or a parent that encodes nothing; and a
\* commit that says tree with nothing of an encoding about it
Crafted ==
    { CommitObj(TreeOfId(EmptyTree), <<Commit1, Commit2>>, <<"tag", TagRaw(Tag1)>>, FixedIdent),
      CommitObj(TreeOfId(EmptyTree), <<Commit1>>, <<"commit", << >> >>, FixedIdent),
      RootCommit(0),
      CommitObj(TreeOfId(EmptyTree), <<Commit1>>, <<"tag">>, FixedIdent),
      CommitObj(TreeOfId(EmptyTree), <<Commit1>>, <<"tag", S(<<"x", "\n">>)>>, FixedIdent),
      CommitObj(TreeOfId(EmptyTree), << >>, <<"tag", TagRaw(Tag2)>>, FixedIdent),
      CommitObj(TreeOfId(EmptyTree), <<Commit1>>, <<"tag", TagRaw(Tag2)>>, FixedIdent),
      CommitObj(TreeOfId(Tree1), <<Commit1>>, <<"tree", << >> >>, DefaultIdent(0)) }

\* the commits of the store that are in Crafted
CraftedIn(cs) == {k \in DOMAIN cs : cs[k] \in Crafted}

\* git commit-tree by hand: a commit of any make is written to the repository
StoreCrafted(c) ==
    /\ Cardinality(CraftedIn(cstore)) < MaxCrafted
    /\ c \notin Range(cstore)
    /\ cstore' = StoreCommit(cstore, c)
    /\ UNCHANGED << nonencvars, clock, odb, encvars >>

\* obj_recreate_from_commit(sha1_) for an id the repository has no commit of
DecodeMissing(sha1_) ==
    /\ Cardinality(decoded) < MaxDecodings
    /\ sha1_ \notin StoredIds(cstore)
    /\ LET dec == obj_recreate_from_commit(cstore, sha1_)
       IN  /\ odb' = odb \cup dec.written
           /\ decoded' = decoded \cup
                  {[sha1_ |-> sha1_, ret |-> IF dec.ok THEN dec.sha1 ELSE UnknownSha1,
                    err |-> dec.at, lost |-> Tags \ odb]}
    /\ UNCHANGED << nonencvars, clock, cstore, user, encoded, rejected >>

\* a repository that holds every object of the sources and no encoding yet
CodecInit ==
    /\ scene = RestoreScene
    /\ srcrefs = RichSrcRefs
    /\ odb = SrcIds
    /\ outdirs = {}
    /\ user = "ident"
    /\ escpath = << >>
    /\ refsin = << >>
    /\ fetchcall = [in |-> NoFetch, out |-> NotFetched]
    /\ InitRest

CodecNext ==
    \/ \E sha1 \in SrcIds \ {EmptyTree} : EncodeObject(sha1)
    \/ \E c \in Crafted : StoreCrafted(c)
    \/ \E k \in 1..(3 * MaxEncodings + MaxCrafted) : DecodeCommit(CommitId(k))
    \/ \E sha1_ \in {UnknownSha1, Tree1} : DecodeMissing(sha1_)

CodecSpec == CodecInit /\ [][CodecNext]_vars

\* ------------------------------------------------------------ path_refescape and path_refunescape on their own

\* pieces a path is put together from
MaxPieces == 3

\* "/", ".", "%", "2E", ".lock", "a", " ", a byte that is no UTF-8 (0xC5),
\* U+00A0 (a space of two bytes) and U+043C (a letter of two bytes)
Pieces ==
    { <<Slash>>, <<Dot>>, <<Ascii["%"]>>, <<50, 69>>, DotLock, <<Ascii["a"]>>, <<Space>>,
      <<197>>, <<194, 160>>, <<208, 188>> }

\* the paths of at most MaxPieces pieces
Paths == {Join(v, << >>) : v \in UNION {[1..n -> Pieces] : n \in 0..MaxPieces}}

RECURSIVE TrimRightSlash(_)
\* strings.TrimRight(path, "/")
TrimRightSlash(path) ==
    IF Len(path) > 0 /\ path[Len(path)] = Slash
    THEN TrimRightSlash(SubSeq(path, 1, Len(path) - 1))
    ELSE path

EscInit ==
    /\ scene = RestoreScene
    /\ srcrefs = InitSrcRefs
    /\ odb = {}
    /\ outdirs = {}
    /\ user = "ident"
    /\ escpath \in Paths
    /\ refsin = << >>
    /\ fetchcall = [in |-> NoFetch, out |-> NotFetched]
    /\ InitRest

\* what neither function touches
nonescvars == << scene, clock, srcvars, repovars, npulls, nfaults, pc, localvars, armed, result,
                 histvars, outvars, restorevars, encvars, refsvars, planvars >>

\* escaped := path_refescape(path)
EscapePath ==
    /\ ~escaped.done
    /\ escaped' = [done |-> TRUE, s |-> path_refescape(escpath)]
    /\ UNCHANGED << nonescvars, escpath, unescaped >>

\* unescaped, err := path_refunescape(escaped)
UnescapePath ==
    /\ escaped.done
    /\ ~unescaped.done
    /\ unescaped' = [done |-> TRUE, s |-> path_refunescape(escaped.s).s,
                     ok |-> path_refunescape(escaped.s).ok]
    /\ UNCHANGED << nonescvars, escpath, escaped >>

EscNext ==
    \/ EscapePath
    \/ UnescapePath

EscSpec == EscInit /\ [][EscNext]_vars

\* ------------------------------------------------------------ path_refescape on what git refuses in a reference

\* "/", ".", ".lock", "a", "%", " ", BEL, DEL, a byte that is no UTF-8 (0xC5),
\* U+00A0, and : ? [ \ ^ ~ * @
RefPieces ==
    { <<Slash>>, <<Dot>>, DotLock, <<Ascii["a"]>>, <<Ascii["%"]>>, <<Space>>, <<7>>, <<127>>,
      <<197>>, <<194, 160>>, <<58>>, <<63>>, <<91>>, <<92>>, <<94>>, <<126>>, <<42>>, <<64>> }

\* the paths of at most MaxPieces such pieces
RefPaths == {Join(v, << >>) : v \in UNION {[1..n -> RefPieces] : n \in 0..MaxPieces}}

EscRefInit ==
    /\ scene = RestoreScene
    /\ srcrefs = InitSrcRefs
    /\ odb = {}
    /\ outdirs = {}
    /\ user = "ident"
    /\ escpath \in RefPaths
    /\ refsin = << >>
    /\ fetchcall = [in |-> NoFetch, out |-> NotFetched]
    /\ InitRest

EscRefSpec == EscRefInit /\ [][EscNext]_vars

\* ------------------------------------------------------------ loadBackupRefs on its own

\* lines of one backup.refs
MaxLines == 3

Pct2E == <<Ascii["%"], 50, 69>>

\* the prefix+refname fields: a.git/h, a.git/b.git/h (two ".git/"), %2Ea.git/h and
\* .a.git/h (the same repository once unescaped), a.gith (no ".git/") and
\* %.git/h (an escape that is no escape)
RefFields ==
    { S(<<"a", ".", "g", "i", "t", "/", "h">>),
      S(<<"a", ".", "g", "i", "t", "/", "b", ".", "g", "i", "t", "/", "h">>),
      Pct2E \o S(<<"a", ".", "g", "i", "t", "/", "h">>),
      S(<<".", "a", ".", "g", "i", "t", "/", "h">>),
      S(<<"a", ".", "g", "i", "t", "h">>),
      S(<<"%", ".", "g", "i", "t", "/", "h">>) }

\* the lines "<sha1> <field>" backup.refs is made of
RefLines == {Sha1String(id) \o <<Space>> \o f : id \in {Commit1, Commit2}, f \in RefFields}

RefsInit ==
    /\ scene = RestoreScene
    /\ srcrefs = InitSrcRefs
    /\ odb = {}
    /\ outdirs = {}
    /\ user = "ident"
    /\ escpath = << >>
    /\ refsin \in UNION {[1..n -> RefLines] : n \in 0..MaxLines}
    /\ fetchcall = [in |-> NoFetch, out |-> NotFetched]
    /\ InitRest

\* what the loader does not touch
nonrefsvars == << scene, clock, srcvars, repovars, npulls, nfaults, pc, localvars, armed, result,
                  histvars, outvars, restorevars, encvars, escvars, planvars >>

\* repo, ref := reporef_split(reporef), for the field of line i
SplitRef(i) ==
    /\ i <= Len(refsin)
    /\ LET sp == reporef_split(ParseRefEntry(refsin[i]).reporef)
       IN  splitted' = [done |-> TRUE, at |-> i, ok |-> sp.ok, repo |-> sp.repo, ref |-> sp.ref]
    /\ UNCHANGED << nonrefsvars, refsin, loaded >>

\* the loop of loadBackupRefs over the lines
LoadRefs ==
    /\ ~loaded.done
    /\ LET l == LoadEntries(refsin, {})
       IN  loaded' = [done |-> TRUE, ok |-> l.ok, repotab |-> l.repotab]
    /\ UNCHANGED << nonrefsvars, refsin, splitted >>

RefsNext ==
    \/ \E i \in 1..MaxLines : SplitRef(i)
    \/ LoadRefs

RefsSpec == RefsInit /\ [][RefsNext]_vars

\* ------------------------------------------------------------ pulls into a backup that is pruned

\* pulls of one behaviour, one after the other
MaxQuietPulls == 2

HaveScene == [procs |-> {1}, pulls |-> MaxQuietPulls, clock |-> 0, jobs |-> 2]

\* sources with references to every kind of object, a fresh backup
HaveInit ==
    /\ scene = HaveScene
    /\ srcrefs = RichSrcRefs
    /\ odb = {}
    /\ outdirs = {}
    /\ user = "ident"
    /\ escpath = << >>
    /\ refsin = << >>
    /\ fetchcall = [in |-> NoFetch, out |-> NotFetched]
    /\ InitRest

\* pulls that nothing disturbs, and git prune between them
HaveNext ==
    \/ QuietPull
    \/ Prune

HaveSpec == HaveInit /\ [][HaveNext]_vars

\* ------------------------------------------------------------ pulls that know less than they could

\* what a pull leaves out of its already-have set: one source object, or all
Drops == {{x} : x \in SrcIds \ {EmptyTree}} \cup {SrcIds}

\* build index of "already-have" objects, and hand fetch a part of it only:
\* alreadyHave does not need to be complete
HaveSubset(p, drop) ==
    /\ pc[p] = "have"
    /\ LET commits == RevList(cstore, HEAD[p])
           full    == commits \cup EncodedOriginals(cstore, HEAD[p], commits)
       IN  /\ drop \cap full # {}
           /\ alreadyHave' = [alreadyHave EXCEPT ![p] = full \ drop]
           /\ odb' = odb \cup RecreatedTags(cstore, HEAD[p], commits)
    /\ pos' = [pos EXCEPT ![p] = <<1, 0>>]
    /\ Goto(p, "rm")
    /\ UNCHANGED << othervars, scene, clock, srcvars, lockref, head, workrefs, refdirs, cstore, index, npulls, nfaults,
                    pullspecv, backup_time, HEAD, blobbedv, refv, fetchv, newcommit, refs_list,
                    parentv, armed, result, histvars >>

TwinNext ==
    \/ QuietPull
    \/ Prune
    \/ \E drop \in Drops : HaveSubset(1, drop)

TwinSpec == HaveInit /\ [][TwinNext]_vars

\* ------------------------------------------------------------ a head moved by someone else

\* commits someone else makes in the backup repository in one behaviour
MaxForeign == 1

ForeignMsg == <<"foreign", <<>>>>

\* someone commits in the backup repository while git-backup is at work or
\* between its runs: refs/backup.locked keeps off other pulls only
ForeignCommit ==
    /\ head # NullSha1
    /\ Cardinality({k \in DOMAIN cstore : cstore[k].msg = ForeignMsg}) < MaxForeign
    /\ \E c \in {xcommit_tree(Content(cstore, head).tree, <<head>>, ForeignMsg, clock)} :
           /\ cstore' = StoreCommit(cstore, c)
           /\ head' = IdOfCommit(cstore', c)
    /\ UNCHANGED << scene, clock, srcvars, lockref, workrefs, refdirs, odb, index, npulls,
                    nfaults, pc, localvars, armed, result, histvars, othervars >>

CasNext ==
    \/ QuietPull
    \/ ForeignCommit

CasSpec == HaveInit /\ [][CasNext]_vars

\* ------------------------------------------------------------ fetch on its own

\* the objects an already-have set is drawn from
HaveIds == {Commit1, Commit2, Tag1, Tree1, Blob1}

\* what only a git that does not do what --refs asks for prints: the listing
\* with HEAD and peeled tags, a name outside refs/, such a name after a good
\* line, a line without name
OddOutputs ==
    { LsRemotePlain(RichSrcRefs, RepoA),
      << Sha1String(Commit1) \o <<9>> \o HeadsM >>,
      << Sha1String(Commit1) \o <<9>> \o RefsSlash \o HeadsM, Sha1String(Commit2) \o <<9>> \o TagsV >>,
      << Sha1String(Commit1) >> }

FetchInputs(sr) ==
    {[repo |-> repo, stdout |-> out, have |-> h] :
        repo \in Repos, out \in OddOutputs \cup {LsRemoteRefs(sr, r) : r \in Repos}, h \in SUBSET HaveIds}

\* a backup without commits that holds what the already-have set names
FetchInit ==
    /\ scene = HaveScene
    /\ srcrefs \in {InitSrcRefs, RichSrcRefs}
    /\ fetchcall \in {[in |-> x, out |-> NotFetched] :
                         x \in {y \in FetchInputs(srcrefs) :
                                   y.stdout \in OddOutputs \/ y.stdout = LsRemoteRefs(srcrefs, y.repo)}}
    /\ odb = Closure(<< >>, fetchcall.in.have)
    /\ outdirs = {}
    /\ user = "ident"
    /\ escpath = << >>
    /\ refsin = << >>
    /\ InitRest

\* what fetch does not touch
nonplanvars == << scene, clock, srcvars, lockref, head, workrefs, refdirs, cstore, index, npulls, nfaults,
                  pc, localvars, armed, result, histvars, outvars, restorevars, encvars, escvars,
                  refsvars >>

\* refv, fetchedv, err := fetch(ctx, repo, alreadyHave), with a sender of the given mode
Fetch(mode) ==
    /\ ~fetchcall.out.done
    /\ LET f == fetch(fetchcall.in.stdout, fetchcall.in.have, mode, odb, cstore, AllRefs)
       IN  /\ fetchcall' = [fetchcall EXCEPT !.out =
                               [done |-> TRUE, mode |-> mode, err |-> f.err, refv |-> f.refv,
                                fetchv |-> f.fetchv, ran |-> f.ran, asked |-> f.asked,
                                checked |-> f.checked, before |-> odb]]
           /\ odb' = f.odb
    /\ UNCHANGED nonplanvars

FetchNext == \E mode \in Senders : Fetch(mode)

FetchSpec == FetchInit /\ [][FetchNext]_vars

\* ------------------------------------------------------------ properties

\* the pulls between lock acquisition and lock release
Holders == {p \in Procs : armed[p]}

\* C1 -- mutual exclusion of pulls: at most one pull is ever between lock
\* acquisition and lock release, and a pull that finds refs/backup.locked
\* present fails at the acquisition: it returns without having created a root
\* commit, fetched, written a reference, touched the index or moved the head.
C1_MutualExclusion ==
    /\ [](Cardinality(Holders) <= 1)
    /\ [][\A p \in Procs :
            (pc[p] = "lock" /\ lockref # NullSha1 /\ pc'[p] # "lock")
            => /\ pc'[p] = "idle"
               /\ result'[p].status = "failed"
               /\ ~armed'[p]
               /\ UNCHANGED << lockref, head, workrefs, refdirs, cstore, index >>
               /\ odb' \subseteq odb \cup {EmptyTree}]_vars

\* a pull has failed at the acquisition while another pull holds the lock
C1_Contended ==
    \E p, q \in Procs :
        /\ p # q
        /\ armed[q]
        /\ pc[p] = "idle"
        /\ result[p] = [status |-> "failed", cause |-> "lock", held |-> FALSE]

\* C2 -- lock release on every exit path: the step with which a pull that has
\* acquired refs/backup.locked returns - after success, after a fetch,
\* integrity, completeness or IO error, after cancellation - leaves the
\* reference refs/backup.locked absent.
C2_LockReleased ==
    [][\A p \in Procs :
          (armed[p] /\ pc'[p] = "idle") => (lockref' = NullSha1 /\ ~armed'[p])]_vars

\* a pull that held the lock was cancelled and has returned; the lock is absent
C2_ReleasedAfterCancel ==
    \E p \in Procs :
        /\ pc[p] = "idle"
        /\ result[p] = [status |-> "failed", cause |-> "cancel", held |-> TRUE]
        /\ lockref = NullSha1

\* the step with which pull p returns after having held the lock
Returns(p) == pc[p] = "unlock" /\ pc'[p] = "idle"

\* pull p has failed at the fetch of a source repository or at its completeness check
FetchFailed(p) == result[p].status = "failed" /\ result[p].cause \in {"fetch", "incomplete"}

\* C3, as stated -- no head advance on failed pull: when a pull fails at the
\* fetch or at the completeness check of a source repository, the head of the
\* backup after the pull equals its head before the pull, whatever the
\* backup was, a backup without head included.
C3_HeadUnchanged ==
    [][\A p \in Procs : (Returns(p) /\ FetchFailed(p)) => head' = headBefore[p]]_vars

\* C3, amended -- when a pull fails at the fetch or at the completeness check
\* of a source repository, the head after the pull equals the head before
\* the pull if the backup had a head; if it had none, the head after the
\* pull is the root commit (empty tree, no parents) this pull has created.
C3_HeadUnchangedOrRoot ==
    [][\A p \in Procs :
          (Returns(p) /\ FetchFailed(p))
          => IF headBefore[p] # NullSha1 THEN head' = headBefore[p]
             ELSE /\ head' \in StoredIds(cstore')
                  /\ Content(cstore', head').parents = <<>>
                  /\ Content(cstore', head').tree = TreeOfId(EmptyTree)]_vars

\* a pull on a backup whose head is a backup commit has failed at the
\* completeness check and returned
C3_FailedWithHead ==
    \E p \in Procs :
        /\ pc[p] = "idle"
        /\ result[p] = [status |-> "failed", cause |-> "incomplete", held |-> TRUE]
        /\ head # NullSha1
        /\ HasBackupRefs(cstore, head)

\* C4 -- fail-closed completeness check: when fetch of a source repository
\* has succeeded, every object reachable from the just-fetched tips, walking
\* with the references the backup already has as stop-set, is present in the
\* object database of the backup; a transfer that leaves one missing fails.
C4_FetchedComplete ==
    \A p \in Procs :
        pc[p] = "mkref"
        => \A x \in Closure(cstore, Sha1s(fetchv[p])) \ Closure(cstore, AllRefs \ {NullSha1}) :
               x \in odb \/ x \in StoredIds(cstore)

\* a fetch that had objects to transfer has succeeded, next to references the
\* backup already has
C4_Fetched ==
    \E p \in Procs :
        /\ pc[p] = "mkref"
        /\ fetchv[p] # <<>>
        /\ workrefs # {}
        /\ Need(cstore, Sha1s(fetchv[p]), AllRefs) # {}

\* pull p ends well / ends with an error
Succeeded(p) == result[p].status = "ok"
Failed(p) == result[p].status = "failed"

\* the references under the work namespace of a pull started at `time`
WorkRefsOf(wr, time) == {r \in wr : HasPrefix(r.name, BackupRefsWork(time))}

\* C5 -- work namespace removed on failure: after a pull that fails at a step
\* after it has written work-namespace references for at least one source
\* repository, no reference remains under its work namespace.
C5_WorkRefsRemoved ==
    [][\A p \in Procs :
          (Returns(p) /\ Failed(p) /\ WorkRefsOf(workrefs, backup_time[p]) # {})
          => WorkRefsOf(workrefs', backup_time[p]) = {}]_vars

\* C6 -- post-pull cleanliness: after every successful pull there is no
\* reference under refs/backup/ and no directory entry below refs/backup/.
C6_CleanAfterPull ==
    [][\A p \in Procs :
          (Returns(p) /\ Succeeded(p))
          => /\ {r \in workrefs' : HasPrefix(r.name, RefsBackup)} = {}
             /\ refdirs' = {}]_vars

\* the entries of <commit>:backup.refs, parsed
EntriesOf(cs, commit) ==
    {ParseRefEntry(BackupRefsOf(cs, commit)[i]) : i \in DOMAIN BackupRefsOf(cs, commit)}

\* everything reachable from a commit of the backup: parents, trees, blobs
ReachableFrom(cs, commit) == Closure(cs, {commit})

\* C7, as stated -- pull completeness: after a successful pull, for every
\* reference the source repositories under the pulled directories advertise,
\* backup.refs of the new head has a line for (escaped repository path,
\* reference name) with the original id, and the object the reference
\* points to is reachable from the new head.
C7_AllReachable ==
    [][\A p \in Procs :
          (Returns(p) /\ Succeeded(p))
          => \A a \in advertised[p] :
                /\ \E e \in EntriesOf(cstore', head') :
                       e.reporef = a.reporef /\ e.sha1 = a.sha1
                /\ a.sha1 \in ReachableFrom(cstore', head')]_vars

\* the commit sha1_ keeps the object sha1: a commit is kept as itself, a tree
\* or a blob is reachable from the commit that encodes it, a tag is carried in
\* the message of the commit that encodes it, next to what it tags
Keeps(cs, sha1_, sha1) ==
    CASE Kind(cs, sha1) = "commit" -> sha1_ = sha1
      [] Kind(cs, sha1) = "tag" ->
            /\ sha1_ \in StoredIds(cs)
            /\ Content(cs, sha1_).msg = <<"tag", TagRaw(sha1)>>
            /\ Tagged(sha1) \in ReachableFrom(cs, sha1_)
      [] OTHER ->
            /\ sha1_ \in StoredIds(cs)
            /\ sha1 \in ReachableFrom(cs, sha1_)

\* C7, amended -- after a successful pull, for every advertised reference,
\* backup.refs of the new head has a line for (escaped repository path,
\* reference name) with the original id, and the effective id of the line is
\* a parent of the new head, present with all it reaches: the object itself
\* when it is a commit, else its synthetic commit, from which a tree or a
\* blob is reachable and which carries a tag in its message; the tag object
\* itself is not reachable from the new head.
C7_PullComplete ==
    [][\A p \in Procs :
          (Returns(p) /\ Succeeded(p))
          => \A a \in advertised[p] :
                \E e \in EntriesOf(cstore', head') :
                    /\ e.reporef = a.reporef
                    /\ e.sha1 = a.sha1
                    /\ e.sha1_ \in Range(Content(cstore', head').parents)
                    /\ Keeps(cstore', e.sha1_, a.sha1)
                    /\ \A x \in ReachableFrom(cstore', e.sha1_) : Present(odb', cstore', x)
                    /\ Kind(cstore', a.sha1) = "tag" => a.sha1 \notin ReachableFrom(cstore', head')]_vars

\* a successful pull has returned with a commit and a tag among the
\* references it recorded
C7_Pulled ==
    \E p \in Procs :
        /\ pc[p] = "idle"
        /\ Succeeded(p)
        /\ \E e, f \in EntriesOf(cstore, head) : e.sha1 = e.sha1_ /\ f.sha1 # f.sha1_

\* raw id bytes, compared bytewise
IdBefore(a, b) == a[1] < b[1] \/ (a[1] = b[1] /\ a[2] < b[2])

\* C8 -- parent closure: the commit a successful pull makes the new head has
\* the previous head as first parent, and its remaining parents are exactly
\* the distinct effective ids of its backup.refs (third field when present,
\* else first field), in ascending order of the raw id bytes.
C8_ParentClosure ==
    [][\A p \in Procs :
          (pc[p] = "advance" /\ pc'[p] = "delete")
          => LET parents == Content(cstore', head').parents
                 rest    == Tail(parents)
             IN  /\ head' # head
                 /\ parents # <<>>
                 /\ parents[1] = head
                 /\ Range(rest) = {e.sha1_ : e \in EntriesOf(cstore', head')}
                 /\ \A i, j \in DOMAIN rest : i < j => IdBefore(rest[i], rest[j])]_vars

\* a pull has moved the head to a commit with several parents after the
\* first, fewer than its backup.refs has lines
C8_Merged ==
    \E p \in Procs :
        /\ pc[p] = "delete"
        /\ head = newcommit[p]
        /\ Len(Content(cstore, head).parents) >= 3
        /\ Len(BackupRefsOf(cstore, head)) >= Len(Content(cstore, head).parents)

\* the backup.refs blobs pull has produced: in the index and in the commits
BackupRefsBlobs ==
    {e.data : e \in {x \in index : x.path = BackupRefsPath}}
        \cup {BackupRefsOf(cstore, id) : id \in {x \in StoredIds(cstore) : HasBackupRefs(cstore, x)}}

\* C9, as stated -- sorted index: in every backup.refs blob produced by pull
\* the lines are in ascending order under raw byte comparison of the lines.
C9_SortedByLine ==
    \A lines \in BackupRefsBlobs :
        \A i, j \in DOMAIN lines : i < j => BytesLess(lines[i], lines[j])

\* C9, amended -- in every backup.refs blob produced by pull the lines are in
\* ascending order under raw byte comparison of their reference field
\* (<prefix>/<escaped repository path>/<reference name>), the order in which
\* git lists the references; the lines start with an id and are not in
\* the order of the lines themselves.
C9_SortedByRef ==
    \A lines \in BackupRefsBlobs :
        \A i, j \in DOMAIN lines :
            i < j => BytesLess(ParseRefEntry(lines[i]).reporef, ParseRefEntry(lines[j]).reporef)

\* a backup.refs blob whose lines are in the order of the references and not
\* in the order of the lines
C9_RefOrderOnly ==
    \E lines \in BackupRefsBlobs :
        \E i, j \in DOMAIN lines : i < j /\ BytesLess(lines[j], lines[i])

\* C10 -- no-op pull: a successful pull repeated right after a successful
\* pull, with unchanged sources and the same dir:prefix list, makes a head
\* commit that differs from the previous head, has the previous head as first
\* parent, and has the tree of the previous head.
C10_NoOpPull ==
    (/\ Len(lastok) = 2
     /\ lastok[2].alone
     /\ lastok[2].specv = lastok[1].specv
     /\ lastok[2].mods1 = lastok[1].mods0)
    => LET prev == lastok[1].head
           new  == lastok[2].head
       IN  /\ new # prev
           /\ Content(cstore, new).parents[1] = prev
           /\ Content(cstore, new).tree = Content(cstore, prev).tree

\* the repositories the walk of a pull spec visits
ReposOf(spec) ==
    {DirEntries[spec.dir][i].path :
        i \in {k \in DOMAIN DirEntries[spec.dir] : DirEntries[spec.dir][k].type = "repo"}}

\* (pull spec, repository, reference name) of every reference a pull request can meet
RefSites(specv) ==
    {site \in Range(specv) \X Repos \X RefNames : site[2] \in ReposOf(site[1])}

\* the reference field of the backup.refs line of a reference
RepoRef(site) == path_refescape(reprefix(site[1].dir, site[1].prefix, site[2])) \o <<Slash>> \o site[3]

\* the path in the backup tree of the file of a reference
RefFile(site) == reprefix(site[1].dir, site[1].prefix, site[2]) \o RefsDir \o site[3]

\* the ids <commit>:backup.refs records for a reference
RecordedIds(cs, commit, site) ==
    {e.sha1 : e \in {x \in EntriesOf(cs, commit) : x.reporef = RepoRef(site)}}

\* the ids the reference file in the tree of commit holds
CapturedIds(cs, commit, site) ==
    {Sha1Parse(e.data[1]) : e \in {x \in Content(cs, commit).tree.entries : x.path = RefFile(site)}}

\* C11 -- fetch-time snapshot under concurrent modification: when a source
\* reference was updated to a new id after the fetch of its repository and
\* before the pull scanned the files of that repository (the file scan
\* captured an id other than the advertised one), the backup.refs of the
\* resulting head records for that reference the id advertised at fetch
\* time, not the new id.
C11_FetchTimeSnapshot ==
    [][\A p \in Procs :
          (Returns(p) /\ Succeeded(p))
          => \A site \in RefSites(pullspecv[p]) :
                \A a \in {x \in advertised[p] : x.reporef = RepoRef(site)} :
                    CapturedIds(cstore', head', site) # {a.sha1}
                    => /\ RecordedIds(cstore', head', site) = {a.sha1}
                       /\ CapturedIds(cstore', head', site) \cap RecordedIds(cstore', head', site) = {}]_vars

\* a successful pull has returned whose tree holds, for a reference, the file
\* with the new id next to the backup.refs line with another, older id
C11_MovedAfterFetch ==
    \E p \in Procs :
        /\ pc[p] = "idle"
        /\ Succeeded(p)
        /\ nmods = 1
        /\ \E spec \in {PullSpecS, PullSpecT}, repo \in Repos, n \in RefNames :
              /\ CapturedIds(cstore, head, <<spec, repo, n>>) = {srcrefs[repo][n]}
              /\ RecordedIds(cstore, head, <<spec, repo, n>>) # {}
              /\ srcrefs[repo][n] \notin RecordedIds(cstore, head, <<spec, repo, n>>)

\* restore ran to its end undisturbed: nothing failed by injection, no
\* cancellation from outside, every output directory was fresh
Undisturbed == rpc = "returned" /\ nrfaults = 0 /\ wgerr \notin {"mkdir", "load"}

\* the restored repositories: what restore was asked to extract
RestoredRepos == {emitted[i] : i \in DOMAIN emitted}

\* C12 -- consistent restore after concurrent modification: restoring a backup
\* state produced by a successful pull, during which a source reference may
\* have been updated between the fetch of its repository and the scan of its
\* files, succeeds: the reference listing of every extracted repository
\* equals the reference set backup.refs records for it, the extracted pack
\* holds everything its heads reach, and no reference file captured by the
\* file scan disagrees with backup.refs.
C12_ConsistentRestore ==
    (Undisturbed /\ Succeeded(1))
    => /\ rresult = "ok"
       /\ \A p \in RestoredRepos :
             /\ XRefList(outfiles, p.repopath) = RepoRefList(p.refs)
             /\ Closure(cstore, Sha1Heads(p.refs)) \subseteq PackOf(packs, p.repopath)

\* C13 -- tag round trip: for every tag object T (of a commit, a tree, a
\* blob, a tag, a tag of a tag), decoding the synthetic commit produced by
\* encoding T returns the id of T and leaves in the object database the tag
\* object T and every inner tag of its chain, also when they were gone.
C13_TagRoundTrip ==
    [][\A d \in decoded' \ decoded :
          \A e \in {x \in encoded : x.sha1_ = d.sha1_ /\ x.sha1 \in Tags} :
              /\ d.ret = e.sha1
              /\ TagChain(e.sha1) \subseteq odb']_vars

\* the encoding of a tag of a tag of a tag was decoded after all three tag
\* objects had been pruned
C13_ChainDecoded ==
    \E d \in decoded, e \in encoded :
        /\ e.sha1_ = d.sha1_
        /\ Cardinality(TagChain(e.sha1)) >= 3
        /\ TagChain(e.sha1) \subseteq d.lost
        /\ TagChain(e.sha1) \subseteq odb

\* C14 -- encoding determinism: the id of the synthetic commit produced for a
\* tag, tree or blob is a function of the original object alone: encodings
\* of the same original made at different times or by different users yield
\* the same id, and the commit carries the fixed author 'Git backup' with
\* the time of the epoch.
C14_EncodingDeterministic ==
    /\ \A e, f \in encoded : e.sha1 = f.sha1 => e.sha1_ = f.sha1_
    /\ \A e \in encoded : Content(cstore, e.sha1_).author = [name |-> "Git backup", when |-> 0]

\* one object was encoded twice, at different times by different users
C14_EncodedTwice ==
    \E e, f \in encoded :
        /\ e.sha1 = f.sha1
        /\ e.when # f.when
        /\ e.user # f.user
        /\ e.sha1_ = f.sha1_

\* C15 -- commit-only parents: every parent id of every commit written (the
\* root commit, the commits that encode objects, the backup merge commits)
\* is the id of a commit object; the id of a tag, tree or blob is never a
\* parent, whatever the source references point to.
C15_CommitOnlyParents ==
    \A k \in DOMAIN cstore :
        \A i \in DOMAIN cstore[k].parents :
            /\ cstore[k].parents[i] \in StoredIds(cstore) \cup SrcIds
            /\ Kind(cstore, cstore[k].parents[i]) = "commit"

\* a backup merge commit with several parents was written next to commits
\* that encode a tag, a tree and a blob
C15_AllKindsWritten ==
    /\ \A t \in {"tag", "tree", "blob"} : \E k \in DOMAIN cstore : cstore[k].msg[1] = t
    /\ \E k \in DOMAIN cstore : cstore[k].parents = <<>>
    /\ \E k \in DOMAIN cstore :
          /\ Len(cstore[k].parents) >= 3
          /\ cstore[k].tree.kind = "index"

\* git for-each-ref in a source repository, in the format of repo_ref_list
SrcRefList(repo) ==
    RepoRefList({[name |-> n, sha1 |-> srcrefs[repo][n], sha1_ |-> srcrefs[repo][n]] :
                    n \in {m \in RefNames : srcrefs[repo][m] # NullSha1}})

\* git rev-list --objects --all in a source repository
SrcObjects(repo) == Closure(<< >>, {srcrefs[repo][n] : n \in RefNames} \ {NullSha1})

\* where a source repository pulled with pspec ends up when restored with rspec
RestoredPath(pspec, rspec, repo) ==
    reprefix(rspec.prefix, rspec.dir, reprefix(pspec.dir, pspec.prefix, repo))

\* the last successful pull: its request and the head it made
LastOk == lastok[Len(lastok)]

\* C16 -- pull/restore round trip: after a successful pull of sources that
\* are not modified, followed by a restore of the resulting head, restore
\* succeeds and every restored repository has exactly the reference listing
\* (name -> id, references to tags, trees and blobs included) and exactly
\* the set of reachable objects of the source repository.
C16_RoundTrip ==
    (Undisturbed /\ Succeeded(1) /\ nmods = 0)
    => /\ rresult = "ok"
       /\ LastOk.head = restoreHEAD
       /\ \A pspec \in Range(LastOk.specv), rspec \in Range(restorespecv) :
             pspec.prefix = rspec.prefix
             => \A repo \in ReposOf(pspec) :
                   /\ XRefList(outfiles, RestoredPath(pspec, rspec, repo)) = SrcRefList(repo)
                   /\ PackOf(packs, RestoredPath(pspec, rspec, repo)) = SrcObjects(repo)

\* both prefixes were pulled and restored: a restored repository has a reference to a tag of a tag of a tag, another
\* has references to a tree and to a blob
C16_RestoredAll ==
    /\ Undisturbed /\ Succeeded(1) /\ nmods = 0
    /\ rresult = "ok"
    /\ Len(LastOk.specv) = 2
    /\ Len(restorespecv) = 2
    /\ Len(emitted) = 3
    /\ {Tag5, Tag2, Tag1, Tree1, Blob1} \subseteq PackOf(packs, RestoredPath(PullSpecT, RestoreSpecB2, RepoO))

\* C17 -- escape round trip: for every byte string p used as a path,
\* path_refunescape(path_refescape(p)) succeeds and returns p with its
\* trailing '/' characters removed; hence two paths that differ other than
\* in trailing slashes never escape to the same string.
C17_EscapeRoundTrip ==
    /\ unescaped.done => (unescaped.ok /\ unescaped.s = TrimRightSlash(escpath))
    /\ escaped.done =>
          \A q \in Paths :
              path_refescape(q) = escaped.s => TrimRightSlash(q) = TrimRightSlash(escpath)

\* a path with a literal "%", a component that ends with ".lock" and a
\* trailing slash went through both functions
C17_HardPath ==
    /\ unescaped.done
    /\ escpath = <<Ascii["%"]>> \o DotLock \o <<Slash>>
    /\ Len(escaped.s) > Len(escpath)
    /\ Len(unescaped.s) < Len(escpath)

\* C18 -- restore precondition: if an output directory named in the restore
\* request already exists, restore aborts before any extraction: no file
\* has been written to any output directory and no pack-extraction request
\* has been emitted, for request lists of any length.
C18_AbortBeforeExtraction ==
    wgerr = "mkdir" => (outfiles = {} /\ emitted = << >>)

\* a goroutine of restore has failed and cmd_restore_ has not returned yet
GroupFailed == rpc = "wait" /\ wgerr # "none"

\* every goroutine of restore has exited and the request channel is closed
AllStopped == dpc = "done" /\ xqclosed /\ \A w \in Workers : wpc[w] = "done"

\* C19 -- cancellation leaves no worker running: when the dispatcher or a
\* worker of restore fails, the shared cancellation fires; the dispatcher
\* emits no request once it has closed the request channel; the dispatcher
\* and every worker exit and restore returns its error, and it returns only
\* after the dispatcher and all workers have exited.
C19_NoWorkerLeft ==
    /\ [](GroupFailed => cancelled)
    /\ [][/\ xqclosed => emitted' = emitted
          /\ (rpc = "wait" /\ rpc' = "returned")
             => (AllStopped /\ rresult' = (IF wgerr = "none" THEN "ok" ELSE "failed"))]_vars
    /\ (GroupFailed ~> (rpc = "returned" /\ rresult = "failed" /\ AllStopped))

\* a worker failed while the dispatcher had requests to send and the other
\* worker was at work; restore has returned the worker's error
C19_WorkerFailedFirst ==
    /\ rpc = "returned"
    /\ rresult = "failed"
    /\ wgerr = "io"
    /\ AllStopped
    /\ cancelled
    /\ Len(emitted) >= 2
    /\ Cardinality(packs) >= 1

\* the request the dispatcher has just sent
LastEmitted == emitted[Len(emitted)]

\* C20 -- decode before extract: for every repository restored, every
\* reference of that repository whose encoded id differs from its original
\* id has been decoded -- its tag object and the inner tags of a chain of
\* tags are in the backup object database, as is an encoded tree or blob --
\* before the pack-extraction request for that repository is emitted, so
\* that extraction never fails for a missing object, also when the tag
\* objects were pruned from the backup.
C20_DecodeBeforeExtract ==
    /\ [][emitted' # emitted
          => \A r \in {x \in LastEmitted'.refs : x.sha1 # x.sha1_} :
                /\ r.sha1 \in odb
                /\ TagChain(r.sha1) \subseteq odb]_vars
    /\ [](wgerr # "pack-objects")

\* both prefixes were pulled, the backup was pruned, and the second prefix
\* alone was restored: the tag of a tag of a tag and its inner tags are back
\* and extracted, the tag of the other prefix is still gone
C20_RestoredAfterPrune ==
    /\ rpc = "returned"
    /\ rresult = "ok"
    /\ Succeeded(1)
    /\ Len(LastOk.specv) = 2
    /\ restorespecv = <<RestoreSpecB2>>
    /\ Tag3 \notin odb
    /\ {Tag5, Tag2, Tag1, Tag4} \subseteq odb
    /\ Tag5 \in PackOf(packs, RestoredPath(PullSpecT, RestoreSpecB2, RepoO))

\* the field reporef_split was given
SplitField == ParseRefEntry(refsin[splitted.at]).reporef

\* where ".git/" is in a field
DotGitAt(f) == {i \in 1..Len(f) : i + 4 <= Len(f) /\ SubSeq(f, i, i + 4) = DotGitSlash}

\* C21 as stated -- the repository path is the longest prefix of the field that
\* ends in ".git" and is followed by "/", percent-unescaped, and the reference
\* name is everything after that slash.
C21_LongestPrefix ==
    (splitted.done /\ splitted.ok)
    => LET f == SplitField
       IN  \E i \in DotGitAt(f) :
              /\ \A j \in DotGitAt(f) : j <= i
              /\ splitted.repo = path_refunescape(SubSeq(f, 1, i + 3)).s
              /\ splitted.ref = SubSeq(f, i + 5, Len(f))

\* C21 -- index entry split: a field with no ".git/" is rejected; otherwise the
\* field is cut at its first ".git/": the repository path is the shortest prefix
\* that ends in ".git" and is followed by "/", percent-unescaped (a prefix that
\* does not unescape is rejected), and the reference name is everything after
\* that slash, as it is.
C21_FirstDotGit ==
    splitted.done
    => LET f == SplitField
       IN  /\ DotGitAt(f) = {} => ~splitted.ok
           /\ \A i \in DotGitAt(f) :
                 (\A j \in DotGitAt(f) : i <= j)
                 => LET un == path_refunescape(SubSeq(f, 1, i + 3))
                    IN  /\ splitted.ok = un.ok
                        /\ un.ok => /\ splitted.repo = un.s
                                    /\ splitted.ref = SubSeq(f, i + 5, Len(f))
           /\ f = Pct2E \o S(<<"a", ".", "g", "i", "t", "/", "h">>)
              => /\ splitted.ok
                 /\ splitted.repo = S(<<".", "a", ".", "g", "i", "t">>)
                 /\ splitted.ref = S(<<"h">>)

\* a field with two ".git/" was split at the first
C21_TwoDotGit ==
    /\ splitted.done
    /\ splitted.ok
    /\ Cardinality(DotGitAt(SplitField)) = 2
    /\ splitted.repo = S(<<"a", ".", "g", "i", "t">>)
    /\ splitted.ref = S(<<"b", ".", "g", "i", "t", "/", "h">>)

\* the (repository, reference) pair line i of the input names
PairOf(i) ==
    LET sp == reporef_split(ParseRefEntry(refsin[i]).reporef)
    IN  [ok |-> sp.ok, pair |-> <<sp.repo, sp.ref>>]

\* every line names a pair
AllSplit == \A i \in DOMAIN refsin : PairOf(i).ok

\* two lines name the same pair
SamePairTwice ==
    \E i, j \in DOMAIN refsin : i < j /\ PairOf(i).ok /\ PairOf(j).ok /\ PairOf(i).pair = PairOf(j).pair

\* C22 -- duplicate index entries are an error: when two lines of backup.refs
\* name the same (repository path, reference name) pair after unescaping, the
\* load fails and no table is returned (with every line well-formed the
\* duplicate is the only cause there is); a table that was loaded has one entry
\* per line and at most one entry per pair, and well-formed lines without a
\* duplicate do load.
C22_DuplicateRef ==
    loaded.done
    => /\ SamePairTwice => (~loaded.ok /\ loaded.repotab = {})
       /\ (AllSplit /\ ~SamePairTwice) => loaded.ok
       /\ loaded.ok
          => /\ \A r1, r2 \in loaded.repotab :
                   (r1.repopath = r2.repopath /\ r1.name = r2.name) => r1 = r2
             /\ Cardinality(loaded.repotab) = Len(refsin)
             /\ \A i \in DOMAIN refsin :
                   \E r \in loaded.repotab : <<r.repopath, r.name>> = PairOf(i).pair

\* two lines whose fields differ as written and agree once unescaped were refused
C22_SameOnceUnescaped ==
    /\ loaded.done
    /\ ~loaded.ok
    /\ Len(refsin) = 2
    /\ AllSplit
    /\ ParseRefEntry(refsin[1]).reporef # ParseRefEntry(refsin[2]).reporef
    /\ PairOf(1).pair = PairOf(2).pair
    /\ ParseRefEntry(refsin[1]).sha1 # ParseRefEntry(refsin[2]).sha1

\* the references an extracted repository has: what its files below refs/ say
ListedRefs(files, repopath) ==
    {[name |-> SubSeq(f.path, Len(repopath \o RefsDir) + 1, Len(f.path)), sha1 |-> Sha1Parse(f.data[1])] :
        f \in {x \in files : HasPrefix(x.path, repopath \o RefsDir)}}

\* the references backup.refs records for a repository, with the original ids
RecordedRefs(refs) == {[name |-> r.name, sha1 |-> r.sha1] : r \in refs}

\* C23 -- post-extraction reference check: a worker passes from the check of
\* the references to the connectivity check only when the references of the
\* extracted repository (name and id) are those backup.refs records for it
\* with the original ids; when they differ the worker ends, the work group has
\* an error and its context is cancelled, the error being 'refs corrupt' when
\* nothing else failed or was cancelled before; when they agree and nothing is
\* injected the check passes; and a restore that returns with an error in the
\* group returns failed.
C23_RefsCorrupt ==
    /\ [][\A w \in Workers :
            (wpc[w] = "verify" /\ wpc'[w] # "verify")
            => LET differs == ListedRefs(outfiles, wreq[w].repopath) # RecordedRefs(wreq[w].refs)
                   own     == ~cancelled /\ nrfaults' = nrfaults
               IN  /\ wpc'[w] = "connectivity" => ~differs
                   /\ differs => (wpc'[w] = "done" /\ wgerr' # "none" /\ cancelled')
                   /\ (differs /\ own) => wgerr' = "refs corrupt"
                   /\ (~differs /\ own) => (wpc'[w] = "connectivity" /\ wgerr' = wgerr)]_vars
    /\ []((rpc = "returned" /\ wgerr # "none") => rresult = "failed")

\* a restore without injected failure has returned failed on 'refs corrupt',
\* and a repository with encoded references has passed the check
C23_CorruptSeen ==
    /\ rpc = "returned"
    /\ rresult = "failed"
    /\ wgerr = "refs corrupt"
    /\ nrfaults = 0
    /\ \E p \in packs : p.repopath = RestoredPath(PullSpecT, RestoreSpecB2, RepoO)

RECURSIVE IsEncodingOf(_, _, _)
\* the commit id of the store has the make of the encoding of sha1: the message
\* is the kind of sha1 and, for a tag, its raw bytes; tree and parents follow T,
\* the object sha1 tags (sha1 itself for a tree or a blob)
IsEncodingOf(cs, id, sha1) ==
    /\ id \in StoredIds(cs)
    /\ SrcObj[sha1].kind \in {"tag", "tree", "blob"}
    /\ LET c == Content(cs, id)
           T == IF SrcObj[sha1].kind = "tag" THEN Tagged(sha1) ELSE sha1
       IN  /\ c.msg = <<SrcObj[sha1].kind, IF SrcObj[sha1].kind = "tag" THEN TagRaw(sha1) ELSE << >> >>
           /\ SrcObj[T].kind = "commit"
              => (c.tree = [kind |-> "id", id |-> EmptyTree, entries |-> {}] /\ c.parents = <<T>>)
           /\ SrcObj[T].kind = "tree"
              => (c.tree = [kind |-> "id", id |-> T, entries |-> {}] /\ c.parents = << >>)
           /\ SrcObj[T].kind = "blob"
              => (c.tree = [kind |-> "tagged", id |-> T, entries |-> {}] /\ c.parents = << >>)
           /\ SrcObj[T].kind = "tag"
              => /\ c.tree = [kind |-> "id", id |-> EmptyTree, entries |-> {}]
                 /\ Len(c.parents) = 1
                 /\ IsEncodingOf(cs, c.parents[1], T)

\* C24 -- encoder structure: the commit that encodes a tag, a tree or a blob
\* has as message the kind line and the raw tag bytes (nothing for a tree or a
\* blob); with T the object one step of tag dereference leads to: T commit ->
\* empty tree, parents [T]; T tree -> tree T, no parents; T blob -> the tree
\* with the one entry 'tagged' -> T, no parents; T tag -> empty tree, parents
\* [the encoding of T]. Encoding a commit is rejected: nothing is written.
C24_EncoderStructure ==
    /\ [](\A e \in encoded : IsEncodingOf(cstore, e.sha1_, e.sha1))
    /\ [](\A x \in rejected : SrcObj[x].kind = "commit")
    /\ [][\A x \in SrcIds :
            (SrcObj[x].kind = "commit" /\ x \in rejected' \ rejected)
            => (cstore' = cstore /\ encoded' = encoded)]_vars
    /\ [][encoded' # encoded => rejected' = rejected]_vars

\* a tag of a tag of a tag or a tag of a blob, and a tag of a tree, a blob or
\* a tree were encoded, and a commit was refused
C24_KindsEncoded ==
    /\ \E e \in encoded : e.sha1 \in {Tag5, Tag4}
    /\ \E e \in encoded : e.sha1 \in {Tag3, Blob1, Tree1}
    /\ rejected # {}

\* the kind line of a stored commit; "" when the message has none
KindLine(cs, id) == IF Len(Content(cs, id).msg) < 2 THEN "" ELSE Content(cs, id).msg[1]

\* C25 -- tree/blob decode: decoding a commit whose kind line is tree or blob
\* (and that has at most one parent) writes no object and returns the null id;
\* when the commit is the encoding of a tree or a blob, that object is
\* reachable from the commit: it is its tree, or the entry 'tagged' of its tree.
C25_TreeBlobDecode ==
    [][\A d \in decoded' \ decoded :
          (/\ d.sha1_ \in StoredIds(cstore)
           /\ KindLine(cstore, d.sha1_) \in {"tree", "blob"}
           /\ Len(Content(cstore, d.sha1_).parents) <= 1)
          => /\ d.ret = NullSha1
             /\ odb' = odb
             /\ cstore' = cstore
             /\ \A e \in {x \in encoded : x.sha1_ = d.sha1_} :
                   /\ SrcObj[e.sha1].kind \in {"tree", "blob"}
                   /\ Content(cstore, d.sha1_).tree.id = e.sha1
                   /\ Content(cstore, d.sha1_).tree.kind =
                         (IF SrcObj[e.sha1].kind = "tree" THEN "id" ELSE "tagged")
                   /\ e.sha1 \in Closure(cstore, {d.sha1_})]_vars

\* the encodings of the tree and of the blob are there and one was decoded
C25_BlobDecoded ==
    /\ {e.sha1 : e \in encoded} = {Tree1, Blob1}
    /\ \E d \in decoded, e \in encoded : d.sha1_ = e.sha1_ /\ d.ret = NullSha1 /\ d.err = NullSha1

\* what makes obj_recreate_from_commit fail at the commit id itself
Undecodable(cs, id) ==
    \/ id \notin StoredIds(cs)
    \/ /\ id \in StoredIds(cs)
       /\ LET c == Content(cs, id)
          IN  \/ Len(c.parents) > 1
              \/ Len(c.msg) < 2
              \/ /\ Len(c.msg) >= 2
                 /\ \/ c.msg[1] \notin {"tag", "tree", "blob"}
                    \/ c.msg[1] = "tag" /\ ~tag_parse(c.msg[2]).ok
                    \/ /\ c.msg[1] = "tag"
                       /\ tag_parse(c.msg[2]).ok
                       /\ tag_parse(c.msg[2]).tagged_type = "tag"
                       /\ Len(c.parents) = 0

\* C26 -- decoder error conditions: decoding fails with an error that carries
\* the commit id, and returns no id, when the commit cannot be looked up, has
\* more than one parent, has a message without kind line or with a kind line
\* other than tag, tree, blob, has kind tag and a body that is no tag header,
\* or has a body that tags a tag and no parent; an error always carries the id
\* of a commit one of these holds for, and a tag that does not parse is one.
C26_DecoderErrors ==
    [][\A d \in decoded' \ decoded :
          /\ Undecodable(cstore, d.sha1_) => (d.ret = UnknownSha1 /\ d.err = d.sha1_)
          /\ d.ret = UnknownSha1 <=> d.err # NullSha1
          /\ d.err # NullSha1 => Undecodable(cstore, d.err)
          /\ (/\ d.sha1_ \in StoredIds(cstore)
              /\ Content(cstore, d.sha1_).msg = <<"tag", S(<<"x", "\n">>)>>)
             => d.err = d.sha1_
          /\ cstore' = cstore]_vars

\* a commit with two parents was decoded and the error carries its id
C26_FailedDecode ==
    \E d \in decoded :
        /\ d.ret = UnknownSha1
        /\ d.sha1_ \in StoredIds(cstore)
        /\ d.err = d.sha1_
        /\ Len(Content(cstore, d.sha1_).parents) = 2

\* pull p is at a *.git directory of the walk: fetch is what comes next
AtFetch(p) == pc[p] = "walk" /\ CurEntry(p).type = "repo"

\* the work-namespace prefix of the repository pull p is at
WorkRepoPrefix(p) == WorkRefName(p, CurEntry(p).path, << >>)

\* C27 -- install after verify: the step of a pull that runs fetch for a
\* repository creates no reference in the backup (work namespace, lock, head);
\* it leads to the writing of the references only when the transfer and the
\* completeness check went well, everything the advertised references reach
\* being in the backup then, and when it fails the pull unwinds without
\* writing a reference; a reference is added to the work namespace only by
\* the step that follows a fetch that went well, for the repository of that
\* fetch and with an id fetch returned.
C27_InstallAfterVerify ==
    /\ [][\A p \in Procs :
            (AtFetch(p) /\ pc'[p] # "walk")
            => /\ workrefs' = workrefs /\ refdirs' = refdirs /\ lockref' = lockref /\ head' = head
               /\ pc'[p] \in {"mkref", "unlock", "idle"}
               /\ pc'[p] = "mkref"
                  => /\ result'[p].status # "failed"
                     /\ \A x \in Sha1s(refv'[p]) :
                           \A y \in Closure(cstore, {x}) : Present(odb', cstore, y)
               /\ pc'[p] # "mkref" => result'[p].status = "failed"]_vars
    /\ [][workrefs' \ workrefs # {}
          => \E p \in Procs :
                /\ pc[p] = "mkref"
                /\ result[p].status # "failed"
                /\ \A r \in workrefs' \ workrefs :
                      /\ HasPrefix(r.name, WorkRepoPrefix(p))
                      /\ r.sha1 \in Sha1s(refv[p])
                      /\ \A y \in Closure(cstore, {r.sha1}) : Present(odb, cstore, y)]_vars
    /\ [](\A p \in Procs : Failed(p) => pc[p] \in {"unlock", "idle"})

\* the fetch of the second repository of a pull failed on incomplete objects
\* after the references of the first were written, and only those are there
C27_SecondFetchFailed ==
    \E p \in Procs :
        /\ pc[p] = "unlock"
        /\ result[p].cause = "incomplete"
        /\ workrefs # {}
        /\ \A r \in workrefs :
              HasPrefix(r.name, BackupRefsWork(backup_time[p]) \o path_refescape(reprefix(DirT, PrefixB2, RepoK)))

\* everything an id reaches is in the object database of the backup
Complete(o, cs, x) == \A y \in Closure(cs, {x}) : Present(o, cs, y)

\* the original ids of the entries of <commit>:backup.refs that are encoded
OriginalsOf(cs, commit) == {e.sha1 : e \in {x \in EntriesOf(cs, commit) : x.sha1 # x.sha1_}}

\* C28 -- already-have soundness: at every point of a pull every id in the
\* already-have set is in the object database of the backup with everything
\* it reaches; the set is built in one step, as the commits reachable from the
\* head at pull start and the original ids of the entries of its backup.refs
\* whose original id differs from the encoded id, each of them there, re-created
\* by the decoder, when the set is built; afterwards the set changes only when
\* the pull is over.
C28_AlreadyHaveSound ==
    /\ [](\A p \in Procs : \A x \in alreadyHave[p] : Complete(odb, cstore, x))
    /\ [][\A p \in Procs :
            (pc[p] = "have" /\ pc'[p] = "rm")
            => /\ alreadyHave'[p] = RevList(cstore, HEAD[p]) \cup OriginalsOf(cstore, HEAD[p])
               /\ \A x \in OriginalsOf(cstore, HEAD[p]) : Complete(odb', cstore, x)
               /\ odb' \ odb \subseteq UNION {TagChain(x) : x \in OriginalsOf(cstore, HEAD[p])}]_vars
    /\ [][\A p \in Procs :
            alreadyHave'[p] # alreadyHave[p] => (pc[p] = "have" \/ alreadyHave'[p] = {})]_vars

\* the second pull has built its set from a backup.refs with a tag of a tag of
\* a tag, a tree and a blob, and fetch is next
C28_OriginalsHeld ==
    /\ npulls = 2
    /\ pc[1] = "walk"
    /\ {Tag5, Tree1, Blob1} \subseteq alreadyHave[1]
    /\ head \in alreadyHave[1]

\* fetch of the repository pull p is at, with `have` as already-have set and a
\* sender of the given mode
FetchWith(p, have, mode) ==
    fetch(LsRemoteRefs(srcrefs, CurEntry(p).path), have, mode, odb, cstore, AllRefs)

\* the line of backup.refs for a reference with the given field and id
ExpectedLine(cs, a) ==
    Sha1String(a.sha1) \o <<Space>> \o a.reporef
        \o (IF SrcObj[a.sha1].kind = "commit" THEN << >>
            ELSE <<Space>> \o Sha1String(obj_represent_as_commit(cs, a.sha1).sha1_))

\* the ids backup.refs makes parents of the backup commit
ExpectedHeads(cs, adv) ==
    {IF SrcObj[a.sha1].kind = "commit" THEN a.sha1 ELSE obj_represent_as_commit(cs, a.sha1).sha1_ :
        a \in adv}

NameOfLine(entry) == SubSeq(entry, 6, Len(entry))

\* the references of the repository of the call, named as below refs/
AdvertisedBy(sr, repo) ==
    {[name |-> n, sha1 |-> sr[repo][n]] : n \in {x \in RefNames : sr[repo][x] # NullSha1}}

\* v lists the members of s once each, by name
ListsByName(v, s) ==
    /\ Range(v) = s
    /\ Len(v) = Cardinality(s)
    /\ \A i, j \in DOMAIN v : i < j => ~BytesLess(v[j].name, v[i].name)

\* C30 -- fetch plan: for the listing of a source repository, the ids handed
\* to fetch-pack are exactly the ids of the advertised references (no peeled
\* alias among them, names without 'refs/') that are not in the already-have
\* set, and what a complete sender adds to the object database is what these
\* ids reach; when no reference is left, neither fetch-pack nor the rev-list
\* check runs, the object database stays as it was and fetch returns all
\* advertised references and an empty fetched list, whatever the sender; a
\* listed name that does not start with 'refs/' makes fetch fail before
\* anything is requested.
C30_FetchPlan ==
    fetchcall.out.done
    => /\ (\E i \in DOMAIN fetchcall.in.stdout : ~HasPrefix(NameOfLine(fetchcall.in.stdout[i]), RefsSlash))
          => /\ fetchcall.out.err # "none"
             /\ ~fetchcall.out.ran /\ ~fetchcall.out.checked
             /\ fetchcall.out.refv = << >> /\ fetchcall.out.fetchv = << >>
             /\ odb = fetchcall.out.before
       /\ fetchcall.in.stdout = LsRemoteRefs(srcrefs, fetchcall.in.repo)
          => LET adv  == AdvertisedBy(srcrefs, fetchcall.in.repo)
                 want == {a \in adv : a.sha1 \notin fetchcall.in.have}
             IN  /\ want = {}
                    => /\ fetchcall.out.err = "none"
                       /\ ~fetchcall.out.ran /\ ~fetchcall.out.checked
                       /\ fetchcall.out.asked = << >>
                       /\ odb = fetchcall.out.before
                       /\ ListsByName(fetchcall.out.refv, adv)
                       /\ fetchcall.out.fetchv = << >>
                 /\ want # {}
                    => /\ fetchcall.out.ran
                       /\ Range(fetchcall.out.asked) = {a.sha1 : a \in want}
                       /\ Len(fetchcall.out.asked) = Cardinality(want)
                       /\ fetchcall.out.mode = "complete"
                          => /\ fetchcall.out.err = "none"
                             /\ odb = fetchcall.out.before \cup Closure(<< >>, {a.sha1 : a \in want})
                       /\ fetchcall.out.err = "none"
                          => /\ fetchcall.out.checked
                             /\ ListsByName(fetchcall.out.refv, adv)
                             /\ ListsByName(fetchcall.out.fetchv, want)
                       /\ fetchcall.out.err # "none"
                          => fetchcall.out.refv = << >> /\ fetchcall.out.fetchv = << >>

\* fetch has returned well for a repository with a tag among its references,
\* having asked for one id and left another, which the set held, alone
C30_PartlyHeld ==
    /\ fetchcall.out.done
    /\ fetchcall.out.err = "none"
    /\ fetchcall.in.stdout = LsRemoteRefs(srcrefs, fetchcall.in.repo)
    /\ \E n \in RefNames : srcrefs[fetchcall.in.repo][n] # NullSha1
                           /\ SrcObj[srcrefs[fetchcall.in.repo][n]].kind = "tag"
    /\ Len(fetchcall.out.fetchv) > 0
    /\ Len(fetchcall.out.fetchv) < Len(fetchcall.out.refv)

RECURSIVE RunesOf(_)
\* the runes utf8.DecodeRuneInString finds in s, one after the other
RunesOf(s) ==
    IF s = << >> THEN {}
    ELSE {DecodeRune(s).r} \cup RunesOf(SubSeq(s, DecodeRune(s).size + 1, Len(s)))

\* control characters and white space (below U+0800), the punctuation git
\* refuses in a reference name, and what a byte that is no UTF-8 decodes to
RefusedRunes == (0..32) \cup (127..160) \cup {58, 63, 91, 92, 94, 126, 42, 64, RuneError}

IsUpperHex(c) == c \in 48..57 \/ c \in 65..70

\* C31 -- escaped output is a valid reference path: what path_refescape
\* returns has no "..", no component that begins with "." or ends with
\* ".lock", no trailing "/", no control character, white space, byte that is
\* no UTF-8 and none of : ? [ \ ^ ~ * @, and every "%" in it is followed by
\* two uppercase hex digits.
C31_ValidRefPath ==
    escaped.done
    => LET s == escaped.s
       IN  /\ \A i \in 1..(Len(s) - 1) : ~(s[i] = Dot /\ s[i + 1] = Dot)
           /\ \A c \in Range(Split(s, Slash)) :
                 /\ Len(c) > 0 => c[1] # Dot
                 /\ ~HasSuffix(c, DotLock)
           /\ Len(s) > 0 => s[Len(s)] # Slash
           /\ RunesOf(s) \cap RefusedRunes = {}
           /\ \A i \in DOMAIN s :
                 s[i] = Ascii["%"]
                 => i + 2 <= Len(s) /\ IsUpperHex(s[i + 1]) /\ IsUpperHex(s[i + 2])

\* a path with a component that ends with ".lock", a character git refuses
\* and a trailing slash has been escaped
C31_HardRefPath ==
    /\ escaped.done
    /\ \E c \in Range(Split(escpath, Slash)) : HasSuffix(c, DotLock)
    /\ RunesOf(escpath) \cap RefusedRunes # {}
    /\ escpath[Len(escpath)] = Slash

\* the requests cmd_restore_ is to emit for one restore spec: one for each
\* repository of backup.refs whose repopath starts with the prefix, sorted
RequestsFor(rs) ==
    LET tab == loadBackupRefs(cstore, restoreHEAD).repotab
        sel == SelectSeq(Repov, LAMBDA r : HasPrefix(r, rs.prefix))
    IN  [i \in DOMAIN sel |-> [refs     |-> RefsOf(tab, sel[i]),
                               repopath |-> reprefix(rs.prefix, rs.dir, sel[i]),
                               prefix   |-> rs.prefix]]

RECURSIVE RequestsOf(_)
\* the requests for a list of restore specs, in the order of the list
RequestsOf(specv) ==
    IF specv = << >> THEN << >> ELSE RequestsFor(Head(specv)) \o RequestsOf(Tail(specv))

\* the pack of a request is in place and the references of the repository
\* it was extracted into are those of the request
ExtractedAndVerified(req) ==
    /\ Closure(cstore, Sha1Heads(req.refs)) \subseteq PackOf(packs, req.repopath)
    /\ XRefList(outfiles, req.repopath) = RepoRefList(req.refs)

\* the number of requests received from the channel so far
NReceived == Len(emitted) - Len(packxq)

\* C32 -- exactly-once dispatch: in a restore that succeeds, for each
\* (prefix, output-dir) pair every repository of backup.refs whose repo-path
\* starts with the prefix gets exactly one pack-extraction request, and each
\* emitted request is received and processed by exactly one worker: none is
\* lost, none is processed twice, and restore does not return success before
\* all of them have been extracted and verified.
C32_ExactlyOnce ==
    /\ [](/\ NReceived >= 0
          /\ packxq = SubSeq(emitted, NReceived + 1, Len(emitted))
          /\ rresult = "ok"
             => /\ emitted = RequestsOf(restorespecv)
                /\ \A i, j \in DOMAIN emitted : emitted[i] = emitted[j] => i = j
                /\ packxq = << >>
                /\ \A w \in Workers : wreq[w] = NoReq
                /\ \A i \in DOMAIN emitted : ExtractedAndVerified(emitted[i]))
    /\ [][/\ \A w \in Workers :
                (wreq'[w] # wreq[w] /\ wreq'[w] # NoReq)
                => /\ wreq[w] = NoReq
                   /\ wreq'[w] = emitted[NReceived + 1]
                   /\ NReceived' = NReceived + 1
                   /\ \A v \in Workers \ {w} : wreq'[v] = wreq[v]
          /\ NReceived' # NReceived
             => \E w \in Workers : wreq[w] = NoReq /\ wreq'[w] = Head(packxq)
          /\ \A w \in Workers :
                (wreq[w] # NoReq /\ wreq'[w] = NoReq /\ wgerr' = "none")
                => ExtractedAndVerified(wreq[w])
          /\ packs' # packs
             => \E w \in Workers :
                   /\ wpc[w] = "extract" /\ wpc'[w] = "verify"
                   /\ packs' \ packs = {[repopath |-> wreq[w].repopath,
                                         objs     |-> Closure(cstore, Sha1Heads(wreq[w].refs))]}]_vars

\* restore of both prefixes has succeeded: three requests went through the
\* channel and three packs were extracted
C32_AllExtracted ==
    /\ rpc = "returned"
    /\ rresult = "ok"
    /\ restorespecv = <<RestoreSpecB1, RestoreSpecB2>>
    /\ Len(emitted) = 3
    /\ Cardinality({p.repopath : p \in packs}) = 3

\* the dispatcher waits at a full channel
BlockedOnFull == dpc = "send" /\ Len(packxq) = 2 * njobs

\* C33 -- restore terminates: under fair scheduling and terminating git
\* subprocesses restore always returns, for every number of workers N >= 1,
\* every number of requests (also more than the 2*N the channel holds) and
\* every pattern of worker failures: the dispatcher closes the request
\* channel on each of its exit paths, idle workers exit on the closed
\* channel, and a dispatcher blocked on a full channel is released by
\* cancellation when the workers have failed.
C33_RestoreReturns ==
    /\ [](/\ njobs >= 1
          /\ Len(packxq) <= 2 * njobs
          /\ dpc = "done" => xqclosed)
    /\ (rpc = "wait") ~> (rpc = "returned")
    /\ \A w \in Pool :
          (w \in Workers /\ wpc[w] = "recv" /\ xqclosed /\ packxq = << >>) ~> (w \in Workers /\ wpc[w] = "done")
    /\ (BlockedOnFull /\ \A w \in Workers : wpc[w] = "done") ~> (dpc = "done" /\ wgerr # "none")

\* two workers: one has failed at its first request, the other has left, and
\* the dispatcher waits at the full channel with its sixth request
C33_BlockedDispatcher ==
    /\ njobs = 2
    /\ BlockedOnFull
    /\ Len(emitted) = 5
    /\ \A w \in Workers : wpc[w] = "done"
    /\ wgerr = "io"

\* the entries of the tree of a commit
TreeEntries(cs, commit) == Content(cs, commit).tree.entries

\* the prefixes a pull names
NamedPrefixes(specv) == {specv[i].prefix : i \in DOMAIN specv}

\* the pull installs its commit as the new head
Installs(p) == pc[p] = "advance" /\ head = HEAD[p] /\ head' = newcommit[p]

\* the entries of a set that lie under no prefix of a set, backup.refs aside
Elsewhere(entries, prefixes) ==
    {e \in entries : e.path # BackupRefsPath /\ \A x \in prefixes : ~UnderPrefix(e.path, x)}

\* the files the walk of a pull has found under dir, at their place under prefix
FoundUnder(p, spec) ==
    {e \in blobbedv[p] : \E entry \in Range(DirEntries[spec.dir]) :
                            /\ entry.type # "repo"
                            /\ UnderPrefix(e.path, reprefix(spec.dir, spec.prefix, entry.path))}

\* what the walk callback is to record at the entry it is at: a plain file
\* that is present, the files of a repository outside objects/
FoundAt(p) ==
    IF CurEntry(p).type = "file"
    THEN {[path |-> reprefix(CurSpec(p).dir, CurSpec(p).prefix, f), data |-> FileData(f)] :
             f \in {CurEntry(p).path} \cap srcfiles}
    ELSE RepoFiles(srcrefs, CurSpec(p).dir, CurSpec(p).prefix, CurEntry(p).path)

\* the walk of pull p goes on from a file or from the files of a repository
WalksOn(p) ==
    /\ pc[p] = "walk" /\ CurEntry(p).type # "repo"
    /\ pos'[p] # pos[p] /\ pc'[p] \in {"walk", "rm", "index"}

\* C34 -- stale removal per prefix: after a successful pull of (dir, prefix)
\* the head's tree under the prefix contains an entry for exactly the
\* non-directory files found under dir at walk time outside any
\* '*.git/objects' sub-tree -- entries recorded under the same prefix by an
\* earlier pull for files that no longer exist in the source are absent --
\* while tree entries under prefixes not named in this pull are unchanged.
C34_StaleRemoval ==
    [][\A p \in Procs :
          /\ WalksOn(p) => blobbedv'[p] = blobbedv[p] \cup FoundAt(p)
          /\ Installs(p)
             => /\ \A i \in DOMAIN pullspecv[p] :
                      {e \in TreeEntries(cstore, head') : UnderPrefix(e.path, pullspecv[p][i].prefix)}
                          = FoundUnder(p, pullspecv[p][i])
                /\ Elsewhere(TreeEntries(cstore, head'), NamedPrefixes(pullspecv[p]))
                      = Elsewhere(TreeEntries(cstore, head), NamedPrefixes(pullspecv[p]))]_vars

\* C35 -- failed lock acquisition is harmless to the holder: a pull that
\* fails to acquire refs/backup.locked because another pull holds it does
\* not delete or change that reference -- the release step is armed only
\* after a successful acquisition -- so the holder's lock stays in place
\* until the holder itself releases it.
C35_HolderKeepsLock ==
    /\ [](\A p \in Procs : /\ armed[p] => lockref # NullSha1
                           /\ pc[p] = "unlock" => armed[p])
    /\ [][/\ \A p \in Procs :
                /\ (pc[p] = "lock" /\ lockref # NullSha1 /\ pc'[p] # "lock")
                   => (pc'[p] = "idle" /\ ~armed'[p] /\ lockref' = lockref)
                /\ (armed'[p] /\ ~armed[p])
                   => (pc[p] = "lock" /\ lockref = NullSha1 /\ lockref' # NullSha1)
          /\ (lockref # NullSha1 /\ lockref' # lockref)
             => \E q \in Holders : Returns(q) /\ lockref' = NullSha1]_vars

\* a pull has failed at the acquisition and has returned; the pull that
\* holds the lock has gone on to install its commit, the lock still in place
C35_HolderGoesOn ==
    \E p, q \in Procs :
        /\ p # q
        /\ pc[p] = "idle"
        /\ result[p].status = "failed" /\ result[p].cause = "lock"
        /\ armed[q]
        /\ pc[q] = "delete"
        /\ lockref = EmptyTree

\* the first parent of a commit; no id for a commit without parents
FirstParent(cs, commit) ==
    IF Content(cs, commit).parents = << >> THEN NullSha1 ELSE Head(Content(cs, commit).parents)

WorkTips(wr) == {r.sha1 : r \in wr}

\* a work-namespace reference is gone after the step
Deleted == {r \in workrefs : r \notin workrefs'}

\* the positions of cmd_pull_ up to and including the update of the head
BeforeAdvance == {"lock", "root", "have", "rm", "walk", "mkref", "index", "refs", "commit", "advance"}

\* C37, as stated -- reachability is never dropped during pull:
\* work-namespace references are deleted only after the head has been
\* advanced to the commit that has all their targets (or their encodings) as
\* parents; hence in every intermediate state of a pull, each successfully
\* fetched tip is reachable from the head or from a work-namespace
\* reference, and no step before the head advance deletes a work-namespace
\* reference.
C37_NeverDropped ==
    [][/\ \A r \in Deleted :
              \E e \in Range(Content(cstore', head').parents) : Keeps(cstore', e, r.sha1)
       /\ Deleted # {} => \E p \in Procs : pc[p] \in {"delete", "rmdir"} /\ head = newcommit[p]
       /\ \A p \in Procs : (pc[p] \in BeforeAdvance /\ pc'[p] # pc[p]) => Deleted = {}
       /\ \A x \in WorkTips(workrefs) :
              x \in Closure(cstore', {head'} \cup WorkTips(workrefs'))]_vars

\* C37, amended -- work-namespace references are deleted only after the head
\* has been advanced to the commit that has all their targets (or their
\* encodings) as parents, and no step before the head advance deletes a
\* work-namespace reference; hence in every step of a pull, a tip that a
\* work-namespace reference points to is afterwards still the target of a
\* work-namespace reference, or it is kept by a parent of the head: a commit
\* as itself and reachable from the head, a tree or a blob reachable through
\* its synthetic commit, a tag carried in the message of its synthetic
\* commit (the tag object itself is then no longer reachable).
C37_KeptThroughout ==
    [][/\ \A r \in Deleted :
              \E e \in Range(Content(cstore', head').parents) : Keeps(cstore', e, r.sha1)
       /\ Deleted # {} => \E p \in Procs : pc[p] \in {"delete", "rmdir"} /\ head = newcommit[p]
       /\ \A p \in Procs : (pc[p] \in BeforeAdvance /\ pc'[p] # pc[p]) => Deleted = {}
       /\ \A x \in WorkTips(workrefs) :
              \/ x \in WorkTips(workrefs')
              \/ \E e \in Range(Content(cstore', head').parents) :
                     /\ Keeps(cstore', e, x)
                     /\ Kind(cstore', x) # "tag" => x \in ReachableFrom(cstore', head')]_vars

\* the references of a pull that recorded a tag have just been deleted, the
\* head having been advanced
C37_TagRefDeleted ==
    \E p \in Procs :
        /\ pc[p] = "rmdir"
        /\ head = newcommit[p]
        /\ workrefs = {}
        /\ \E e \in EntriesOf(cstore, head) : Kind(cstore, e.sha1) = "tag"

\* the (escaped repository path/reference name, id) pairs of <commit>:backup.refs
LinesOf(cs, commit) == {[reporef |-> e.reporef, sha1 |-> e.sha1] : e \in EntriesOf(cs, commit)}

\* C38 -- index is exactly this pull's snapshot: the set of lines of the
\* backup.refs written by a successful pull equals exactly the set of
\* (escaped repo-path, ref-name, id) triples advertised by the repositories
\* fetched during this pull: no line stems from the previous head's
\* backup.refs, from a prefix not named in this pull, or from
\* work-namespace references left behind by an earlier failed pull.
C38_ExactSnapshot ==
    [][\A p \in Procs :
          (Returns(p) /\ Succeeded(p))
          => /\ LinesOf(cstore', head') = advertised[p]
             /\ \A l \in LinesOf(cstore', head') :
                   \E x \in NamedPrefixes(pullspecv[p]) : UnderPrefix(l.reporef, x)]_vars

\* the path of a repository of the backup relative to the directory prefix/
RelativeTo(prefix, repopath) == SubSeq(repopath, Len(prefix) + 2, Len(repopath))

\* C39 -- restore stays inside its prefix: restore of (prefix, dir) emits
\* pack-extraction requests only for repositories that lie under the
\* directory <prefix>/ of the backup (repo-path equal to the prefix or
\* starting with prefix + '/'), and every emitted request targets a path
\* below dir that corresponds to the repository's path relative to the
\* prefix; a repository under a sibling prefix whose name merely begins with
\* the same characters is not extracted.
C39_InsidePrefix ==
    [][emitted' # emitted
       => \E repo \in Range(Repov) :
             /\ UnderPrefix(repo, CurRestoreSpec.prefix)
             /\ LastEmitted'.repopath = CurRestoreSpec.dir \o <<Slash>> \o RelativeTo(CurRestoreSpec.prefix, repo)
             /\ LastEmitted'.refs = RefsOf(loadBackupRefs(cstore, restoreHEAD).repotab, repo)]_vars

====
